---- MODULE Spec2Model ----
(***************************************************************************)
(* Flowther: the workflows tree provider (visibility state, tree builder,  *)
(* review state), the variables provider, navigation with its jump         *)
(* highlight, the interpreter resolver and the extractor invocation.       *)
(***************************************************************************)
EXTENDS Integers, Sequences, FiniteSets, TLC

VARIABLES
  _analysis,        \* WorkflowsProvider._analysis (raw result or null)
  _workspaceRoot,   \* WorkflowsProvider._workspaceRoot
  _files,           \* WorkflowsProvider._files (the visible tree)
  _focusFlowId,     \* WorkflowsProvider._focusFlowId
  _loading,         \* WorkflowsProvider._loading
  _lastError,       \* WorkflowsProvider._lastError
  workspaceState,   \* context.workspaceState: key -> persisted array
  pendingTails,     \* hide/unhide handlers suspended at `await update(...)`
  inFlight,         \* refresh calls suspended in their try block
  scen,             \* observer of the hideFlow / unhideAllFlows scenario
  marked,           \* observer: identities marked reviewed and not unmarked since
  notify,           \* observer: notifications fired, command calls finished
  heap,             \* the arrays of the analysis and of the tree, by reference
  variablesProvider,\* VariablesProvider: _analysis, _workspaceRoot, _variables, _lastError
  resolver,         \* one call of resolvePythonPathForSlither: its locals
  extractor,        \* one call of spawnOnce: the child, its streams, the promise
  nav,              \* openLocation: jumpHighlightSeq, the timers, the decorations
  parked            \* a second call of spawnOnce, while no event of it is handled

providerVars == <<_analysis, _workspaceRoot, _files, _focusFlowId, _loading,
                  _lastError, workspaceState, pendingTails, inFlight, scen,
                  marked, notify, heap, variablesProvider>>

vars == <<providerVars, resolver, extractor, nav, parked>>

----------------------------------------------------------------------------
(* Bounds of the model *)

\* longest hidden-flow list explored
MaxHiddenFlows == 2
\* longest hidden-file list explored
MaxHiddenFiles == 2
\* most hide/unhide handlers suspended at their await at one time
MaxPending == 2
\* most refresh calls in flight at one time
MaxInFlight == 2
\* longest reviewed-id list explored
MaxReviewed == 2

\* most `data` chunks read from the child's stdout, and from its stderr
MaxStdoutChunks == 2

MaxStderrChunks == 2

----------------------------------------------------------------------------
(* JavaScript values *)

\* null / undefined of a string-valued field
NullStr == "<null>"

\* JavaScript truthiness of a string-or-null value
Truthy(s) == s # NullStr /\ s # ""

HIDDEN_FLOWS_KEY == "flowther.hiddenFlows"
HIDDEN_FILES_KEY == "flowther.hiddenFiles"
REVIEWED_KEY == "flowther.reviewed"

StoreKeys == {HIDDEN_FLOWS_KEY, HIDDEN_FILES_KEY, REVIEWED_KEY}

\* Number.POSITIVE_INFINITY, above every line number of the model
POSITIVE_INFINITY == 1000000

\* the elements of an array, as a set (new Set(array))
SetOf(s) == {s[i] : i \in 1..Len(s)}

\* Array.from(new Set(s)): first occurrences, in order
RECURSIVE uniqueArray(_)
uniqueArray(s) ==
  IF s = <<>> THEN <<>>
  ELSE LET init == uniqueArray(SubSeq(s, 1, Len(s) - 1))
           x == s[Len(s)]
       IN IF x \in SetOf(init) THEN init ELSE Append(init, x)

\* String.prototype.localeCompare on the strings of the model: their order
\* in the collation (punctuation before letters, a prefix before its
\* extensions, lower case before upper case at equal letters)
Collation ==
  <<"", "/abs/C.sol", "a", "A.sol", "b", "B.sol", "E.sol", "transfer", "z", "Z.sol">>

CollationRank(s) == CHOOSE i \in 1..Len(Collation) : Collation[i] = s

localeCompare(a, b) == CollationRank(a) - CollationRank(b)

\* path.isAbsolute on the paths of the model
AbsolutePaths == {"/abs/C.sol", "/ws"}

isAbsolute(p) == p \in AbsolutePaths

\* path.join(root, rel) for a plain relative path
pathJoin(root, rel) == root \o "/" \o rel

----------------------------------------------------------------------------
(* Raw analysis results (the extractor's JSON) *)

WsRoot == "/ws"

Loc(f, l) == [file |-> f, line |-> l, character |-> 0]

\* a missing location
NoLocation == [file |-> NullStr, line |-> 0, character |-> 0]

RawCall(label, loc, cycle, calls) ==
  [label |-> label, location |-> loc, cycle |-> cycle, calls |-> calls]

RawEp(flowId, label, inherited, loc, calls) ==
  [flowId |-> flowId, label |-> label, inherited |-> inherited,
   location |-> loc, calls |-> calls]

RawFile(p, eps) == [path |-> p, entrypoints |-> eps]

RawOk(fs) ==
  [kind |-> "object", ok |-> TRUE, error |-> NullStr, files |-> fs, variables |-> <<>>]

RawFail(msg) == [kind |-> "object", ok |-> FALSE, error |-> msg, files |-> <<>>,
   variables |-> <<>>]

\* JSON null, and the null of _analysis
NullAnalysis == [kind |-> "null", ok |-> FALSE, error |-> NullStr, files |-> <<>>,
   variables |-> <<>>]

\* a JSON scalar (number, string, boolean): every property is undefined
RawScalar == [kind |-> "scalar", ok |-> FALSE, error |-> NullStr, files |-> <<>>,
   variables |-> <<>>]

----------------------------------------------------------------------------
(* Normalization *)

\* JavaScript values a raw `line` or `character` can hold besides an
\* ordinary number, each written as a number no line of the model reaches:
\* undefined, null, NaN, and a string that is not a number.  Infinity is
\* POSITIVE_INFINITY.
JsUndefined == -1000001

JsNull == -1000002

NaN == -1000003

JsText == -1000004

\* v || 0
orZero(v) == IF v \in {JsUndefined, JsNull, NaN, 0} THEN 0 ELSE v

\* Number(v) of a value that is not undefined or null
Number(v) == IF v = JsText THEN NaN ELSE v

\* Number.isFinite of a number
isFinite(n) == n \notin {NaN, POSITIVE_INFINITY}

normalizeLocation(location, workspaceRoot) ==
  IF ~Truthy(location.file) THEN NoLocation
  ELSE [file |-> IF isAbsolute(location.file) THEN location.file
                 ELSE pathJoin(workspaceRoot, location.file),
        line |-> Number(orZero(location.line)),
        character |-> Number(orZero(location.character))]

RECURSIVE normalizeCall_reversed(_, _, _)
\* faulty variant: the children are numbered from the last to the first
normalizeCall_reversed(call, workspaceRoot, order) ==
  [kind |-> "call",
   order |-> order,
   label |-> call.label,
   cycle |-> call.cycle,
   location |-> normalizeLocation(call.location, workspaceRoot),
   calls |-> [i \in 1..Len(call.calls) |->
                normalizeCall_reversed(call.calls[i], workspaceRoot,
                                       Len(call.calls) + 1 - i)]]

RECURSIVE normalizeCall(_, _, _)
normalizeCall(call, workspaceRoot, order) ==
  [kind |-> "call",
   order |-> order,
   label |-> call.label,
   cycle |-> call.cycle,
   location |-> normalizeLocation(call.location, workspaceRoot),
   calls |-> [i \in 1..Len(call.calls) |->
                normalizeCall(call.calls[i], workspaceRoot, i)]]

normalizeEntrypoint(ep, workspaceRoot) ==
  [kind |-> "entrypoint",
   flowId |-> ep.flowId,
   label |-> ep.label,
   inherited |-> ep.inherited,
   location |-> normalizeLocation(ep.location, workspaceRoot),
   calls |-> [i \in 1..Len(ep.calls) |->
                normalizeCall(ep.calls[i], workspaceRoot, i)]]

----------------------------------------------------------------------------
(* TreeBuilder: WorkflowsProvider._rebuildFiles *)

\* the sort key of a normalized entrypoint's line
lineKey(ep) ==
  IF ep.location.file = NullStr THEN POSITIVE_INFINITY ELSE ep.location.line

\* String(label || "")
labelKey(ep) == IF Truthy(ep.label) THEN ep.label ELSE ""

\* faulty variant: the comparator skips the inherited flag
compareEntrypoints_noInherited(a, b) ==
  IF lineKey(a) # lineKey(b) THEN lineKey(a) - lineKey(b)
  ELSE localeCompare(labelKey(a), labelKey(b))

\* the comparator of f.entrypoints.sort
compareEntrypoints(a, b) ==
  LET ia == IF a.inherited THEN 1 ELSE 0
      ib == IF b.inherited THEN 1 ELSE 0
      la == lineKey(a)
      lb == lineKey(b)
  IN IF ia # ib THEN ia - ib
     ELSE IF la # lb THEN la - lb
     ELSE localeCompare(labelKey(a), labelKey(b))

\* the comparator of this._files.sort
compareFiles(a, b) == localeCompare(a.fileRel, b.fileRel)

\* Array.prototype.sort is stable: insert e after the last element that
\* does not compare greater than it
insertEntrypoint(sorted, e) ==
  LET i == CHOOSE k \in 0..Len(sorted) :
             /\ \A j \in (k + 1)..Len(sorted) : compareEntrypoints(sorted[j], e) > 0
             /\ k = 0 \/ compareEntrypoints(sorted[k], e) <= 0
  IN SubSeq(sorted, 1, i) \o <<e>> \o SubSeq(sorted, i + 1, Len(sorted))

RECURSIVE sortEntrypoints(_)
sortEntrypoints(s) ==
  IF s = <<>> THEN <<>>
  ELSE insertEntrypoint(sortEntrypoints(SubSeq(s, 1, Len(s) - 1)), s[Len(s)])

insertFile(sorted, f) ==
  LET i == CHOOSE k \in 0..Len(sorted) :
             /\ \A j \in (k + 1)..Len(sorted) : compareFiles(sorted[j], f) > 0
             /\ k = 0 \/ compareFiles(sorted[k], f) <= 0
  IN SubSeq(sorted, 1, i) \o <<f>> \o SubSeq(sorted, i + 1, Len(sorted))

RECURSIVE sortFiles(_)
sortFiles(s) ==
  IF s = <<>> THEN <<>>
  ELSE insertFile(sortFiles(SubSeq(s, 1, Len(s) - 1)), s[Len(s)])

\* faulty variant: the hidden-file filter keeps every file
fileIsShown_ignoresHidden(file, hiddenFileSet) == TRUE

\* .filter((file) => !hiddenFiles.has(file.path))
fileIsShown(file, hiddenFileSet) == file.path \notin hiddenFileSet

\* faulty variant: the hidden-flow filter keeps every entrypoint
flowIsShown_ignoresHidden(ep, hiddenFlowSet) == TRUE

\* .filter((ep) => !hiddenFlows.has(ep.flowId))
flowIsShown(ep, hiddenFlowSet) == ep.flowId \notin hiddenFlowSet

\* faulty variant: a file node left without entrypoints is kept
hasEntrypoints_keepsEmpty(fileNode) == TRUE

\* .filter((fileNode) => (fileNode.entrypoints || []).length > 0)
hasEntrypoints(fileNode) == Len(fileNode.entrypoints) > 0

\* the file node of one raw file
fileNode(file, workspaceRoot, hiddenFlowSet) ==
  [kind |-> "file",
   fileRel |-> file.path,
   fileAbs |-> IF isAbsolute(file.path) THEN file.path
               ELSE pathJoin(workspaceRoot, file.path),
   entrypoints |->
     LET shown == SelectSeq(file.entrypoints,
                            LAMBDA ep : flowIsShown(ep, hiddenFlowSet))
     IN [i \in 1..Len(shown) |-> normalizeEntrypoint(shown[i], workspaceRoot)]]

\* faulty variant: the focus filter keeps every entrypoint of the file
focusFile_keepsAll(node, focusId) == node

\* the focus filter on one file node
focusFile(node, focusId) ==
  [node EXCEPT !.entrypoints =
     SelectSeq(node.entrypoints, LAMBDA ep : ep.flowId = focusId)]

\* the focus stage of _rebuildFiles
focusFiles(nodes, focusId) ==
  IF Truthy(focusId)
  THEN SelectSeq([i \in 1..Len(nodes) |-> focusFile(nodes[i], focusId)],
                 LAMBDA n : hasEntrypoints(n))
  ELSE nodes

\* the sort stage of _rebuildFiles
sortTree(nodes) ==
  LET sorted == sortFiles(nodes)
  IN [i \in 1..Len(sorted) |->
        [sorted[i] EXCEPT !.entrypoints = sortEntrypoints(@)]]

_rebuildFiles(analysis, workspaceRoot, hiddenFlowList, hiddenFileList, focusId) ==
  IF analysis.kind = "null" \/ ~Truthy(workspaceRoot) THEN <<>>
  ELSE LET hiddenFlowSet == SetOf(hiddenFlowList)
           hiddenFileSet == SetOf(hiddenFileList)
           kept == SelectSeq(analysis.files,
                             LAMBDA f : fileIsShown(f, hiddenFileSet))
           nodes == [i \in 1..Len(kept) |->
                       fileNode(kept[i], workspaceRoot, hiddenFlowSet)]
           nonEmpty == SelectSeq(nodes, LAMBDA n : hasEntrypoints(n))
       IN sortTree(focusFiles(nonEmpty, focusId))

\* the tree of the current provider state, with the store as given
rebuilt(analysis, root, store, focusId) ==
  _rebuildFiles(analysis, root, store[HIDDEN_FLOWS_KEY], store[HIDDEN_FILES_KEY],
                focusId)

----------------------------------------------------------------------------
(* VariablesProvider *)

RawModifier(flowId, label, contract, loc) ==
  [flowId |-> flowId, label |-> label, contract |-> contract, location |-> loc]

RawVariable(varId, name, type, contract, inherited, inheritedFrom, loc, modifiers) ==
  [varId |-> varId, name |-> name, type |-> type, contract |-> contract,
   inherited |-> inherited, inheritedFrom |-> inheritedFrom, location |-> loc,
   modifiers |-> modifiers]

RawVarFile(p, contract, vs) == [path |-> p, contract |-> contract, vars |-> vs]

\* an ok result with a variables list
RawOkVars(fs, vs) == [RawOk(fs) EXCEPT !.variables = vs]

modifierNode(m, workspaceRoot) ==
  [kind |-> "modifier", flowId |-> m.flowId, label |-> m.label,
   contract |-> m.contract,
   location |-> normalizeLocation(m.location, workspaceRoot)]

variableNode(v, workspaceRoot) ==
  [kind |-> "variable", varId |-> v.varId, name |-> v.name, type |-> v.type,
   contract |-> v.contract, inherited |-> v.inherited,
   inheritedFrom |-> IF Truthy(v.inheritedFrom) THEN v.inheritedFrom ELSE NullStr,
   location |-> normalizeLocation(v.location, workspaceRoot),
   modifiers |-> [i \in 1..Len(v.modifiers) |->
                    modifierNode(v.modifiers[i], workspaceRoot)]]

varFileNode(fileEntry, workspaceRoot) ==
  [kind |-> "varFile",
   fileRel |-> fileEntry.path,
   fileAbs |-> IF isAbsolute(fileEntry.path) THEN fileEntry.path
               ELSE pathJoin(workspaceRoot, fileEntry.path),
   contract |-> fileEntry.contract,
   vars |-> [i \in 1..Len(fileEntry.vars) |->
               variableNode(fileEntry.vars[i], workspaceRoot)]]

\* faulty variant: files without variables stay in the list
hasVars_keepsEmpty(f) == TRUE

\* the predicate of .filter((f) => f.vars && f.vars.length > 0)
hasVars(f) == Len(f.vars) > 0

_rebuildVariables(analysis, workspaceRoot) ==
  IF analysis.kind = "null" \/ ~Truthy(workspaceRoot) THEN <<>>
  ELSE sortFiles(SelectSeq([i \in 1..Len(analysis.variables) |->
                              varFileNode(analysis.variables[i], workspaceRoot)],
                           hasVars))

\* the provider as constructed
NoVariables ==
  [_analysis |-> NullAnalysis, _workspaceRoot |-> NullStr, _variables |-> <<>>,
   _lastError |-> NullStr]

setAnalysis(vp, analysis, workspaceRoot) ==
  [_analysis |-> analysis, _workspaceRoot |-> workspaceRoot,
   _variables |-> _rebuildVariables(analysis, workspaceRoot),
   _lastError |-> NullStr]

setError(vp, error) == [vp EXCEPT !._lastError = error, !._variables = <<>>]

----------------------------------------------------------------------------
(* _rebuildFiles on the arrays it works on.  `cells` are the arrays, a
   reference is an index in it; `raw` is the array this._analysis.files,
   whose file objects hold the reference of their entrypoints array; `files`
   is the array this._files; `fresh` and `sorted` are the arrays the last
   rebuild created and the arrays it sorted. *)

\* this._analysis = raw: the arrays of the parsed document
loadHeap(analysis) ==
  [cells |-> <<[i \in 1..Len(analysis.files) |->
                  [analysis.files[i] EXCEPT !.entrypoints = i + 1]]>>
             \o [i \in 1..Len(analysis.files) |-> analysis.files[i].entrypoints],
   raw |-> 1, files |-> 0, fresh |-> {}, sorted |-> {}]

\* this._files is assigned anew: the arrays of the previous tree are gone
dropTree(h) ==
  [h EXCEPT !.cells = SubSeq(@, 1, IF h.raw = 0 THEN 0 ELSE 1 + Len(h.cells[h.raw])),
            !.files = 0, !.fresh = {}, !.sorted = {}]

\* faulty variant: filter and map write their result into the array they
\* are called on
newArray_inPlace(h, src, items) ==
  [heap |-> [h EXCEPT !.cells[src] = items], ref |-> src]

\* Array.prototype.filter and Array.prototype.map: the result is a newly
\* created array and the array they are called on is left as it is
newArray(h, src, items) ==
  [heap |-> [h EXCEPT !.cells = Append(@, items),
                      !.fresh = @ \cup {Len(h.cells) + 1}],
   ref |-> Len(h.cells) + 1]

\* Array.prototype.sort: sorts the array itself
sortInPlace(h, r, sortedItems) ==
  [h EXCEPT !.cells[r] = sortedItems, !.sorted = @ \cup {r}]

\* the value an intermediate result is bound to, once
Only(S) == CHOOSE x \in S : TRUE

\* the .map((file) => ({...})) over the files the hidden-file filter kept:
\* each file's entrypoints go through .filter and .map
RECURSIVE nodesOnHeap(_, _, _, _)
nodesOnHeap(h, files, workspaceRoot, hiddenFlowSet) ==
  IF files = <<>> THEN [heap |-> h, items |-> <<>>]
  ELSE Only({Only({Only({
         [heap |-> rest.heap,
          items |-> <<[kind |-> "file",
                       fileRel |-> Head(files).path,
                       fileAbs |-> IF isAbsolute(Head(files).path)
                                   THEN Head(files).path
                                   ELSE pathJoin(workspaceRoot, Head(files).path),
                       entrypoints |-> mapped.ref]>> \o rest.items] :
           rest \in {nodesOnHeap(mapped.heap, Tail(files), workspaceRoot,
                                 hiddenFlowSet)}}) :
           mapped \in {newArray(shown.heap, shown.ref,
                         [i \in 1..Len(shown.heap.cells[shown.ref]) |->
                            normalizeEntrypoint(shown.heap.cells[shown.ref][i],
                                                workspaceRoot)])}}) :
           shown \in {newArray(h, Head(files).entrypoints,
                        SelectSeq(h.cells[Head(files).entrypoints],
                                  LAMBDA ep : flowIsShown(ep, hiddenFlowSet)))}})

\* the file nodes of an array that still have an entrypoint
nonEmptyOnHeap(h, r) ==
  SelectSeq(h.cells[r],
            LAMBDA n : hasEntrypoints([n EXCEPT !.entrypoints = h.cells[@]]))

\* the .map((file) => ({...file, entrypoints: ....filter(...)})) of the
\* focus stage
RECURSIVE focusOnHeap(_, _, _)
focusOnHeap(h, nodes, focusId) ==
  IF nodes = <<>> THEN [heap |-> h, items |-> <<>>]
  ELSE Only({Only({
         [heap |-> rest.heap,
          items |-> <<[Head(nodes) EXCEPT !.entrypoints = kept.ref]>>
                      \o rest.items] :
           rest \in {focusOnHeap(kept.heap, Tail(nodes), focusId)}}) :
           kept \in {newArray(h, Head(nodes).entrypoints,
                       SelectSeq(h.cells[Head(nodes).entrypoints],
                                 LAMBDA ep : ep.flowId = focusId))}})

\* for (const f of this._files) f.entrypoints.sort(...)
RECURSIVE sortEntrypointsOnHeap(_, _)
sortEntrypointsOnHeap(h, nodes) ==
  IF nodes = <<>> THEN h
  ELSE Only({sortEntrypointsOnHeap(next, Tail(nodes)) :
               next \in {sortInPlace(h, Head(nodes).entrypoints,
                           sortEntrypoints(h.cells[Head(nodes).entrypoints]))}})

\* the first chain of _rebuildFiles: .filter, .map, .filter
hiddenStage(h, workspaceRoot, hiddenFlowSet, hiddenFileSet) ==
  Only({Only({Only({
    newArray(mapped.heap, mapped.ref, nonEmptyOnHeap(mapped.heap, mapped.ref)) :
      mapped \in {newArray(nodes.heap, kept.ref, nodes.items)}}) :
      nodes \in {nodesOnHeap(kept.heap, kept.heap.cells[kept.ref],
                             workspaceRoot, hiddenFlowSet)}}) :
      kept \in {newArray(h, h.raw,
                  SelectSeq(h.cells[h.raw],
                            LAMBDA f : fileIsShown(f, hiddenFileSet)))}})

\* the focus chain of _rebuildFiles: .map, .filter
focusStage(nonEmpty, focusId) ==
  IF Truthy(focusId)
  THEN Only({Only({
         newArray(m.heap, m.ref, nonEmptyOnHeap(m.heap, m.ref)) :
           m \in {newArray(f.heap, nonEmpty.ref, f.items)}}) :
           f \in {focusOnHeap(nonEmpty.heap, nonEmpty.heap.cells[nonEmpty.ref],
                              focusId)}})
  ELSE nonEmpty

\* the two sorts of _rebuildFiles, on the array this._files
sortStage(focused) ==
  Only({[sortEntrypointsOnHeap(top, top.cells[focused.ref])
           EXCEPT !.files = focused.ref] :
          top \in {sortInPlace(focused.heap, focused.ref,
                               sortFiles(focused.heap.cells[focused.ref]))}})

\* _rebuildFiles, array by array
rebuildOnHeap(h0, isNull, workspaceRoot, hiddenFlowList, hiddenFileList, focusId) ==
  Only({IF isNull \/ ~Truthy(workspaceRoot)
        THEN [h EXCEPT !.cells = Append(@, <<>>), !.files = Len(h.cells) + 1,
                       !.fresh = {Len(h.cells) + 1}]
        ELSE Only({Only({sortStage(focused) :
               focused \in {focusStage(nonEmpty, focusId)}}) :
               nonEmpty \in {hiddenStage(h, workspaceRoot, SetOf(hiddenFlowList),
                                         SetOf(hiddenFileList))}}) :
          h \in {dropTree(h0)}})

----------------------------------------------------------------------------
(* Views of a tree *)

\* the visible entrypoints, as (file, flowId) pairs
Visible(tree) ==
  UNION {{<<tree[i].fileRel, tree[i].entrypoints[j].flowId>> :
            j \in 1..Len(tree[i].entrypoints)} : i \in 1..Len(tree)}

\* the (file, flowId) pairs of a raw analysis
RawPairs(analysis) ==
  UNION {{<<analysis.files[i].path, analysis.files[i].entrypoints[j].flowId>> :
            j \in 1..Len(analysis.files[i].entrypoints)} :
         i \in 1..Len(analysis.files)}

TreePaths(tree) == {tree[i].fileRel : i \in 1..Len(tree)}

----------------------------------------------------------------------------
(* The analyses of the model *)

CallT5 == RawCall("transfer", Loc("A.sol", 5), FALSE, <<>>)
\* a call with no resolvable definition
CallBuiltin == RawCall("require", NoLocation, FALSE, <<>>)
CallT6 == RawCall("transfer", Loc("A.sol", 6), FALSE, <<CallBuiltin>>)
\* the call of line 5 as a later analysis reports it, moved to line 7
CallT7 == RawCall("transfer", Loc("A.sol", 7), FALSE, <<>>)

EpAb == RawEp("A.sol::C.b", "b", FALSE, Loc("A.sol", 20), <<CallT5, CallT6>>)
EpAa == RawEp("A.sol::C.a", "a", FALSE, Loc("A.sol", 10), <<>>)
EpAbMoved == RawEp("A.sol::C.b", "b", FALSE, Loc("A.sol", 20), <<CallT7, CallT6>>)
EpAz == RawEp("A.sol::C.z", "z", TRUE, Loc("B.sol", 1), <<>>)
EpBb == RawEp("B.sol::D.b", "b", FALSE, NoLocation, <<>>)
EpBa == RawEp("B.sol::D.a", "a", FALSE, NoLocation, <<>>)
EpCt == RawEp("/abs/C.sol::K.transfer", "transfer", FALSE, Loc("/abs/C.sol", 20), <<>>)
\* an entrypoint listed under a second file with the flowId it has in A.sol
EpCa == RawEp("A.sol::C.a", "a", FALSE, Loc("/abs/C.sol", 20), <<>>)

\* a cycle marker as the producer emits it, a leaf
CallLoopLeaf == RawCall("loop", Loc("A.sol", 30), TRUE, <<>>)
\* a call flagged as a cycle that still carries a call list, two levels deep
CallLoopFull == RawCall("loop", Loc("A.sol", 31), TRUE, <<CallT5, CallLoopLeaf>>)
EpAloop == RawEp("A.sol::C.transfer", "transfer", FALSE, Loc("A.sol", 29),
                 <<CallLoopLeaf, RawCall("step", Loc("A.sol", 32), FALSE, <<CallLoopFull>>)>>)

\* files and entrypoints in the producer's order, not sorted
R1 == RawOk(<<RawFile("B.sol", <<EpBb, EpBa>>), RawFile("A.sol", <<EpAb, EpAa, EpAz>>)>>)

R2 ==
  RawOk(<<RawFile("E.sol", <<>>), RawFile("A.sol", <<EpAa>>),
          RawFile("/abs/C.sol", <<EpCt, EpCa>>)>>)

\* an analysis whose call trees hold cycle markers
R3 == RawOk(<<RawFile("A.sol", <<EpAloop, EpAa>>)>>)

----------------------------------------------------------------------------
(* The provider after construction *)

NoScen == [stage |-> 0, x |-> NullStr, pre |-> {}, hid |-> <<>>]

\* a runner descriptor {cmd, args}; NoRunner before the resolver has returned
Runner(cmd, args) == [cmd |-> cmd, args |-> args]

NoRunner == Runner(NullStr, <<>>)

\* resolvePythonPathForSlither has not been called
NoResolver ==
  [pc |-> "idle", slitherPython |-> NullStr, pythonPathSetting |-> NullStr,
   candidates |-> <<>>, unique |-> <<>>, probes |-> <<>>, runner |-> NoRunner]

\* the `code` argument of the close event: a number, or null when the child
\* was ended by a signal
Code(n) == [isNull |-> FALSE, n |-> n]

NullCode == [isNull |-> TRUE, n |-> 0]

\* the promise made by spawnOnce
Pending == [state |-> "pending", value |-> NullAnalysis, error |-> NullStr]

\* the options bundle refresh passes to runExtractor
Options(slitherRepoPath, solcPath, solcArgs, filterPaths, excludeDependencies, expandDependencies, maxCallDepth) ==
  [slitherRepoPath |-> slitherRepoPath, solcPath |-> solcPath,
   solcArgs |-> solcArgs, filterPaths |-> filterPaths,
   excludeDependencies |-> excludeDependencies,
   expandDependencies |-> expandDependencies, maxCallDepth |-> maxCallDepth]

\* the options of an unconfigured workspace
DefaultOptions == Options("", "", "", <<>>, TRUE, TRUE, 10)

\* what the closure of spawnOnce holds of runExtractor's arguments
Invocation(pythonRunner, analysisTarget, options) ==
  [pythonRunner |-> pythonRunner, analysisTarget |-> analysisTarget,
   options |-> options]

\* spawnOnce has not been called
NoExtractor ==
  [state |-> "none", stdout |-> <<>>, stderr |-> <<>>, code |-> NullCode,
   token |-> FALSE, listening |-> FALSE, cancelRequested |-> FALSE,
   killed |-> FALSE, cancelledBeforeExit |-> FALSE, promise |-> Pending,
   call |-> Invocation(NoRunner, NullStr, DefaultOptions),
   cmd |-> NullStr, args |-> <<>>]

\* a command call finished by a step: how many times it fired
\* onDidChangeTreeData, the path it took ("rebuild" from the cached analysis,
\* "refresh" through a silent refresh, "noWorkspace" when that refresh found
\* no workspace folder, "store" for the review commands), and whether its
\* refresh got a result from the extractor
CallDone(kind, fires, path, ranExtractor) ==
  [kind |-> kind, fires |-> fires, path |-> path,
   ranExtractor |-> ranExtractor]

NoCall == CallDone("none", 0, "none", FALSE)

\* `fired`: the calls of _onDidChangeTreeData.fire() made by the last step;
\* `awaiting`: for each hide/unhide/focus handler waiting for the silent
\* refresh it started, the notifications its call has fired so far;
\* `done`: the command call the last step finished
NoCalls == [fired |-> 0, awaiting |-> <<>>, done |-> NoCall]

\* the documents showTextDocument can show, one editor each
Editors == {"A.sol", "B.sol"}

\* how the last finished step of openLocation ended, and the message it showed
Outcome(kind, message) == [kind |-> kind, message |-> message]

NoOutcome == Outcome("none", NullStr)

\* openLocation before any call: no timer, no decoration, nothing awaited
NoNav ==
  [jumpHighlightSeq |-> 0, timers |-> {}, jumpHighlightTimeout |-> 0,
   highlight |-> [e \in Editors |-> 0], calls |-> {}, started |-> 0,
   last |-> NoOutcome]

\* no array allocated
NoHeap == [cells |-> <<>>, raw |-> 0, files |-> 0, fresh |-> {}, sorted |-> {}]

InitProvider ==
  /\ _analysis = NullAnalysis
  /\ _workspaceRoot = NullStr
  /\ _files = <<>>
  /\ _focusFlowId = NullStr
  /\ _loading = FALSE
  /\ _lastError = NullStr
  /\ workspaceState = [k \in StoreKeys |-> <<>>]
  /\ pendingTails = 0
  /\ inFlight = 0
  /\ scen = NoScen
  /\ marked = {}
  /\ notify = NoCalls
  /\ heap = NoHeap
  /\ variablesProvider = NoVariables
  /\ resolver = NoResolver
  /\ extractor = NoExtractor
  /\ nav = NoNav
  /\ parked = NoExtractor

----------------------------------------------------------------------------
(* SpecBuild: _rebuildFiles applied to inputs assembled one at a time *)

BuildAnalyses == {R1, R2, R3}
BuildFocusInputs == {NullStr, "A.sol::C.a", "A.sol::C.z", "B.sol::D.b", "X.sol::Q.q"}
BuildHiddenFlowInputs == {"A.sol::C.a", "A.sol::C.b", "B.sol::D.a"}
BuildHiddenFileInputs == {"A.sol", "B.sol", "/abs/C.sol", "Z.sol"}

BuildFrame ==
  UNCHANGED <<_loading, _lastError, pendingTails, inFlight, scen, marked,
              notify, variablesProvider, resolver, extractor, nav, parked>>

\* the arrays after _rebuildFiles has run on the state the step leaves
rebuiltOnHeap(h, analysis, root, store, focusId) ==
  rebuildOnHeap(h, analysis.kind = "null", root, store[HIDDEN_FLOWS_KEY],
                store[HIDDEN_FILES_KEY], focusId)

BuildLoad(R) ==
  /\ _analysis' = R
  /\ _workspaceRoot' = WsRoot
  /\ _files' = rebuilt(R, WsRoot, workspaceState, _focusFlowId)
  /\ heap' = rebuiltOnHeap(loadHeap(R), R, WsRoot, workspaceState, _focusFlowId)
  /\ UNCHANGED <<workspaceState, _focusFlowId>>
  /\ BuildFrame

BuildHideFile(p) ==
  /\ Len(workspaceState[HIDDEN_FILES_KEY]) < MaxHiddenFiles
  /\ workspaceState' =
       [workspaceState EXCEPT ![HIDDEN_FILES_KEY] = uniqueArray(Append(@, p))]
  /\ _files' = rebuilt(_analysis, _workspaceRoot, workspaceState', _focusFlowId)
  /\ heap' = rebuiltOnHeap(heap, _analysis, _workspaceRoot, workspaceState',
                           _focusFlowId)
  /\ UNCHANGED <<_analysis, _workspaceRoot, _focusFlowId>>
  /\ BuildFrame

BuildHideFlow(id) ==
  /\ Len(workspaceState[HIDDEN_FLOWS_KEY]) < MaxHiddenFlows
  /\ workspaceState' =
       [workspaceState EXCEPT ![HIDDEN_FLOWS_KEY] = uniqueArray(Append(@, id))]
  /\ _files' = rebuilt(_analysis, _workspaceRoot, workspaceState', _focusFlowId)
  /\ heap' = rebuiltOnHeap(heap, _analysis, _workspaceRoot, workspaceState',
                           _focusFlowId)
  /\ UNCHANGED <<_analysis, _workspaceRoot, _focusFlowId>>
  /\ BuildFrame

BuildFocus(X) ==
  /\ _focusFlowId' = X
  /\ _files' = rebuilt(_analysis, _workspaceRoot, workspaceState, X)
  /\ heap' = rebuiltOnHeap(heap, _analysis, _workspaceRoot, workspaceState, X)
  /\ UNCHANGED <<_analysis, _workspaceRoot, workspaceState>>
  /\ BuildFrame

NextBuild ==
  \/ \E R \in BuildAnalyses : BuildLoad(R)
  \/ \E p \in BuildHiddenFileInputs : BuildHideFile(p)
  \/ \E id \in BuildHiddenFlowInputs : BuildHideFlow(id)
  \/ \E X \in BuildFocusInputs : BuildFocus(X)

SpecBuild == InitProvider /\ [][NextBuild]_vars

----------------------------------------------------------------------------
(* Claims on the tree builder *)

\* C1: with hidden files F, no hidden flows and no focus, the built tree
\* holds no file node whose path is in F.
C1_NoHiddenFileInTree ==
  (workspaceState[HIDDEN_FLOWS_KEY] = <<>> /\ ~Truthy(_focusFlowId))
    => TreePaths(_files) \cap SetOf(workspaceState[HIDDEN_FILES_KEY]) = {}

\* a tree built from R1 with A.sol hidden, that still shows B.sol
C1_Witness ==
  /\ _analysis = R1
  /\ workspaceState[HIDDEN_FILES_KEY] = <<"A.sol">>
  /\ workspaceState[HIDDEN_FLOWS_KEY] = <<>>
  /\ ~Truthy(_focusFlowId)
  /\ TreePaths(_files) = {"B.sol"}

\* the raw files that list an entrypoint with flowId X
FilesWithFlow(analysis, X) ==
  {analysis.files[i].path :
     i \in {k \in 1..Len(analysis.files) :
              \E j \in 1..Len(analysis.files[k].entrypoints) :
                analysis.files[k].entrypoints[j].flowId = X}}

\* C4: with empty hidden sets and focus id X, the tree is exactly the files
\* of the analysis that list an entrypoint with flowId X, each file node
\* holds only entrypoints with flowId X, and the tree is empty when no
\* entrypoint has flowId X.
C4_FocusExact ==
  (/\ workspaceState[HIDDEN_FLOWS_KEY] = <<>>
   /\ workspaceState[HIDDEN_FILES_KEY] = <<>>
   /\ Truthy(_focusFlowId)
   /\ _analysis.kind # "null")
    => /\ TreePaths(_files) = FilesWithFlow(_analysis, _focusFlowId)
       /\ Len(_files) = Cardinality(FilesWithFlow(_analysis, _focusFlowId))
       /\ \A i \in 1..Len(_files) :
            /\ Len(_files[i].entrypoints) > 0
            /\ \A j \in 1..Len(_files[i].entrypoints) :
                 _files[i].entrypoints[j].flowId = _focusFlowId
       /\ (FilesWithFlow(_analysis, _focusFlowId) = {} => _files = <<>>)

\* focus on a flow that two files of R2 list
C4_Witness ==
  /\ _analysis = R2
  /\ workspaceState[HIDDEN_FLOWS_KEY] = <<>>
  /\ workspaceState[HIDDEN_FILES_KEY] = <<>>
  /\ _focusFlowId = "A.sol::C.a"
  /\ Len(_files) = 2

\* the sort key (inherited flag, line, label) of a normalized entrypoint
SortKey(ep) ==
  <<IF ep.inherited THEN 1 ELSE 0, lineKey(ep), CollationRank(labelKey(ep))>>

KeyLeq(a, b) ==
  \/ a[1] < b[1]
  \/ a[1] = b[1] /\ a[2] < b[2]
  \/ a[1] = b[1] /\ a[2] = b[2] /\ a[3] <= b[3]

\* C5: in every built tree each file's entrypoints are in key order
\* (non-inherited first, then ascending line, then label), sorting them
\* again changes nothing, and a second build from the same inputs gives the
\* same tree.
C5_EntrypointsSorted ==
  /\ \A i \in 1..Len(_files) :
       /\ \A j \in 1..(Len(_files[i].entrypoints) - 1) :
            KeyLeq(SortKey(_files[i].entrypoints[j]),
                   SortKey(_files[i].entrypoints[j + 1]))
       /\ sortEntrypoints(_files[i].entrypoints) = _files[i].entrypoints
  /\ rebuilt(_analysis, _workspaceRoot, workspaceState, _focusFlowId) = _files

\* R1 built with nothing hidden: A.sol shows a(10), b(20), z(inherited)
C5_Witness ==
  /\ _analysis = R1
  /\ \E i \in 1..Len(_files) :
       /\ _files[i].fileRel = "A.sol"
       /\ [j \in 1..Len(_files[i].entrypoints) |-> _files[i].entrypoints[j].label]
            = <<"a", "b", "z">>

----------------------------------------------------------------------------
(* WorkflowsProvider.getChildren *)

Message(text) == [kind |-> "message", message |-> text]

\* faulty variant: "All files are hidden" is chosen whenever some file is
\* hidden, whether or not an analysis file is left outside the hidden set
getChildren_anyHiddenFile(loading, lastError, files, focusId, analysis, store) ==
  IF loading THEN <<Message("Loading workflows")>>
  ELSE IF Truthy(lastError)
  THEN <<Message("Flowther error: " \o lastError),
         Message("Run Flowther: Refresh Workflows to retry.")>>
  ELSE IF Len(files) = 0
  THEN IF Truthy(focusId)
       THEN <<Message("Focus mode is active. Clear focus to show all workflows.")>>
       ELSE IF /\ analysis.kind # "null"
               /\ \E i \in 1..Len(analysis.files) :
                    Len(analysis.files[i].entrypoints) > 0
       THEN IF Len(store[HIDDEN_FILES_KEY]) > 0
            THEN <<Message("All files are hidden. Use Flowther: Unhide All Files.")>>
            ELSE <<Message("All workflows are hidden. Use Flowther: Unhide All Flows.")>>
       ELSE <<Message("No workflows yet. Run Flowther: Refresh Workflows.")>>
  ELSE files

\* faulty variant: the error message is shown only when the tree is empty
getChildren_treeBeforeError(loading, lastError, files, focusId, analysis, store) ==
  IF loading THEN <<Message("Loading workflows")>>
  ELSE IF Len(files) > 0 THEN files
  ELSE IF Truthy(lastError)
  THEN <<Message("Flowther error: " \o lastError),
         Message("Run Flowther: Refresh Workflows to retry.")>>
  ELSE <<Message("No workflows yet. Run Flowther: Refresh Workflows.")>>

\* getChildren(undefined): the children of the root
getChildren(loading, lastError, files, focusId, analysis, store) ==
  IF loading THEN <<Message("Loading workflows")>>
  ELSE IF Truthy(lastError)
  THEN <<Message("Flowther error: " \o lastError),
         Message("Run Flowther: Refresh Workflows to retry.")>>
  ELSE IF Len(files) = 0
  THEN IF Truthy(focusId)
       THEN <<Message("Focus mode is active. Clear focus to show all workflows.")>>
       ELSE IF /\ analysis.kind # "null"
               /\ \E i \in 1..Len(analysis.files) :
                    Len(analysis.files[i].entrypoints) > 0
       THEN IF /\ ~\E i \in 1..Len(analysis.files) :
                     analysis.files[i].path \notin SetOf(store[HIDDEN_FILES_KEY])
               /\ Len(analysis.files) > 0
            THEN <<Message("All files are hidden. Use Flowther: Unhide All Files.")>>
            ELSE <<Message("All workflows are hidden. Use Flowther: Unhide All Flows.")>>
       ELSE <<Message("No workflows yet. Run Flowther: Refresh Workflows.")>>
  ELSE files

rootChildren ==
  getChildren(_loading, _lastError, _files, _focusFlowId, _analysis, workspaceState)

----------------------------------------------------------------------------
(* Spec: the workflows provider's commands *)

\* what one refresh can get back from runExtractor
S1 == RawOk(<<RawFile("B.sol", <<EpBa>>), RawFile("A.sol", <<EpAb, EpAa>>)>>)
S2 == RawOk(<<RawFile("A.sol", <<EpAa>>)>>)

RefreshResults == {S1, S2, RawFail("boom"), RawFail("")}

\* messages of the exceptions the awaited pipeline can throw
RefreshErrors == {"spawn python3 ENOENT"}

\* the entrypoint nodes and the file nodes of the tree
EntrypointNodes(tree) ==
  UNION {SetOf(tree[i].entrypoints) : i \in 1..Len(tree)}

FileNodes(tree) == SetOf(tree)

\* String.prototype.startsWith on the flow ids of the model
FlowNames == {"C.a", "C.b", "C.z", "D.a", "D.b", "K.transfer", "Q.q"}

startsWith(s, prefix) == \E rest \in FlowNames : s = prefix \o rest

\* Array.prototype.filter
filterArray(s, keep) == SelectSeq(s, LAMBDA x : x \in keep)

\* refresh, when no workspace folder is open
refreshNoWorkspace ==
  /\ _files' = <<>>
  /\ _lastError' = "No workspace folder open"
  /\ _analysis' = NullAnalysis
  /\ _workspaceRoot' = NullStr
  /\ UNCHANGED <<_loading, inFlight>>

\* refresh, up to its first await
refreshLoading ==
  /\ inFlight < MaxInFlight
  /\ _loading' = TRUE
  /\ _lastError' = NullStr
  /\ inFlight' = inFlight + 1
  /\ UNCHANGED <<_analysis, _workspaceRoot, _files>>

refreshBegin == refreshNoWorkspace \/ refreshLoading

\* faulty variant: the rebuild from the cached analysis is not followed by a
\* notification
rebuildOrRefresh_noFire(focusId, store) ==
  /\ UNCHANGED variablesProvider
  /\ IF _analysis.kind # "null"
       THEN /\ _files' = rebuilt(_analysis, _workspaceRoot, store, focusId)
            /\ UNCHANGED <<_analysis, _workspaceRoot, _loading, _lastError, inFlight>>
            /\ notify' = [notify EXCEPT !.fired = 0,
                                        !.done = CallDone("op", 0, "rebuild", FALSE)]
       ELSE \/ /\ refreshNoWorkspace
               /\ notify' = [notify EXCEPT !.fired = 1,
                                           !.done = CallDone("op", 1, "noWorkspace", FALSE)]
            \/ /\ refreshLoading
               /\ notify' = [notify EXCEPT !.fired = 1,
                                           !.awaiting = Append(@, 1),
                                           !.done = NoCall]

\* faulty variant: the handlers refresh even when an analysis is cached
rebuildOrRefresh_alwaysRefreshes(focusId, store) ==
  /\ UNCHANGED variablesProvider
  /\ \/ /\ refreshNoWorkspace
          /\ notify' = [notify EXCEPT !.fired = 1,
                                      !.done = CallDone("op", 1, "noWorkspace", FALSE)]
       \/ /\ refreshLoading
          /\ notify' = [notify EXCEPT !.fired = 1,
                                      !.awaiting = Append(@, 1),
                                      !.done = NoCall]

\* the end of every hide/unhide/focus handler: rebuild from the cached
\* analysis, or refresh when there is none
rebuildOrRefresh(focusId, store) ==
  /\ UNCHANGED variablesProvider
  /\ IF _analysis.kind # "null"
       THEN /\ _files' = rebuilt(_analysis, _workspaceRoot, store, focusId)
            /\ UNCHANGED <<_analysis, _workspaceRoot, _loading, _lastError, inFlight>>
            /\ notify' = [notify EXCEPT !.fired = 1,
                                      !.done = CallDone("op", 1, "rebuild", FALSE)]
       ELSE \/ /\ refreshNoWorkspace
               /\ notify' = [notify EXCEPT !.fired = 1,
                                         !.done = CallDone("op", 1, "noWorkspace", FALSE)]
            \/ /\ refreshLoading
               /\ notify' = [notify EXCEPT !.fired = 1,
                                         !.awaiting = Append(@, 1),
                                         !.done = NoCall]

\* the observer: hideFlow(X), its rebuild, unhideAllFlows, its rebuild,
\* with no other step in between
scenHide(flowId) ==
  IF _analysis.kind # "null" /\ pendingTails = 0
  THEN [stage |-> 1, x |-> flowId, pre |-> Visible(_files),
        hid |-> workspaceState[HIDDEN_FLOWS_KEY]]
  ELSE NoScen

scenUnhideAll == IF scen.stage = 2 THEN [scen EXCEPT !.stage = 3] ELSE NoScen

scenTail == IF scen.stage \in {1, 3} THEN [scen EXCEPT !.stage = @ + 1] ELSE NoScen

\* the observer when an in-flight refresh settles: it is the refresh of a
\* refresh command, or the one a hide/unhide/focus handler is waiting for
settled(ranExtractor) ==
  \/ /\ inFlight > Len(notify.awaiting)
     /\ notify' = [notify EXCEPT !.fired = 1, !.done = NoCall]
  \/ /\ Len(notify.awaiting) > 0
     /\ notify' = [fired |-> 1,
                  awaiting |-> Tail(notify.awaiting),
                  done |-> CallDone("op", Head(notify.awaiting) + 1, "refresh",
                                    ranExtractor)]

refresh ==
  /\ refreshBegin
  /\ notify' = [notify EXCEPT !.fired = 1, !.done = NoCall]
  /\ scen' = NoScen
  /\ UNCHANGED <<_focusFlowId, workspaceState, pendingTails, variablesProvider>>
  /\ UNCHANGED <<marked, resolver, extractor, heap, nav, parked>>

\* faulty variant: the ok:false branch keeps the cached analysis
refreshResolved_keepsAnalysis(raw) ==
  /\ inFlight > 0
  /\ inFlight' = inFlight - 1
  /\ IF ~raw.ok
     THEN /\ _files' = <<>>
          /\ _lastError' = (IF Truthy(raw.error) THEN raw.error ELSE "Unknown error")
          /\ _loading' = FALSE
          /\ UNCHANGED <<_analysis, _workspaceRoot, variablesProvider>>
     ELSE /\ _analysis' = raw
          /\ _workspaceRoot' = WsRoot
          /\ _files' = rebuilt(raw, WsRoot, workspaceState, _focusFlowId)
          /\ _loading' = FALSE
          /\ _lastError' = NullStr
          /\ variablesProvider' = setAnalysis(variablesProvider, raw, WsRoot)
  /\ settled(TRUE)
  /\ scen' = NoScen
  /\ UNCHANGED <<_focusFlowId, workspaceState, pendingTails>>
  /\ UNCHANGED <<marked, resolver, extractor, heap, nav, parked>>

\* faulty variant: a successful re-analysis empties the hidden-flow list
refreshResolved_resetsHidden(raw) ==
  /\ inFlight > 0
  /\ inFlight' = inFlight - 1
  /\ IF ~raw.ok
     THEN /\ _analysis' = NullAnalysis
          /\ _workspaceRoot' = WsRoot
          /\ _files' = <<>>
          /\ _lastError' = (IF Truthy(raw.error) THEN raw.error ELSE "Unknown error")
          /\ _loading' = FALSE
          /\ UNCHANGED <<workspaceState, variablesProvider>>
     ELSE /\ _analysis' = raw
          /\ _workspaceRoot' = WsRoot
          /\ workspaceState' = [workspaceState EXCEPT ![HIDDEN_FLOWS_KEY] = <<>>]
          /\ _files' = rebuilt(raw, WsRoot, workspaceState', _focusFlowId)
          /\ _loading' = FALSE
          /\ _lastError' = NullStr
          /\ variablesProvider' = setAnalysis(variablesProvider, raw, WsRoot)
  /\ settled(TRUE)
  /\ scen' = NoScen
  /\ UNCHANGED <<_focusFlowId, pendingTails>>
  /\ UNCHANGED <<marked, resolver, extractor, heap, nav, parked>>

\* runExtractor resolved with raw
refreshResolved(raw) ==
  /\ inFlight > 0
  /\ inFlight' = inFlight - 1
  /\ IF ~raw.ok
     THEN /\ _analysis' = NullAnalysis
          /\ _workspaceRoot' = WsRoot
          /\ _files' = <<>>
          /\ _lastError' = (IF Truthy(raw.error) THEN raw.error ELSE "Unknown error")
          /\ _loading' = FALSE
          /\ UNCHANGED variablesProvider
     ELSE /\ _analysis' = raw
          /\ _workspaceRoot' = WsRoot
          /\ _files' = rebuilt(raw, WsRoot, workspaceState, _focusFlowId)
          /\ _loading' = FALSE
          /\ _lastError' = NullStr
          /\ variablesProvider' = setAnalysis(variablesProvider, raw, WsRoot)
  /\ settled(TRUE)
  /\ scen' = NoScen
  /\ UNCHANGED <<_focusFlowId, workspaceState, pendingTails>>
  /\ UNCHANGED <<marked, resolver, extractor, heap, nav, parked>>

\* faulty variant: the catch block leaves _loading as it is
refreshThrew_keepsLoading(msg) ==
  /\ inFlight > 0
  /\ inFlight' = inFlight - 1
  /\ _files' = <<>>
  /\ _lastError' = msg
  /\ variablesProvider' = setError(variablesProvider, msg)
  /\ settled(FALSE)
  /\ scen' = NoScen
  /\ UNCHANGED <<_analysis, _workspaceRoot, _focusFlowId, workspaceState, pendingTails,
                 _loading>>
  /\ UNCHANGED <<marked, resolver, extractor, heap, nav, parked>>

\* an awaited step of refresh threw
refreshThrew(msg) ==
  /\ inFlight > 0
  /\ inFlight' = inFlight - 1
  /\ _files' = <<>>
  /\ _loading' = FALSE
  /\ _lastError' = msg
  /\ variablesProvider' = setError(variablesProvider, msg)
  /\ settled(FALSE)
  /\ scen' = NoScen
  /\ UNCHANGED <<_analysis, _workspaceRoot, _focusFlowId, workspaceState, pendingTails>>
  /\ UNCHANGED <<marked, resolver, extractor, heap, nav, parked>>

\* faulty variant: the focus id is set and the tree is left as it was
focusFlow_noRebuild(node) ==
  /\ node.kind = "entrypoint" /\ Truthy(node.flowId)
  /\ _focusFlowId' = node.flowId
  /\ notify' = [notify EXCEPT !.fired = 1,
                            !.done = CallDone("op", 1, "rebuild", FALSE)]
  /\ scen' = NoScen
  /\ UNCHANGED <<_analysis, _workspaceRoot, _files, _loading, _lastError, inFlight,
                 variablesProvider, workspaceState, pendingTails>>
  /\ UNCHANGED <<marked, resolver, extractor, heap, nav, parked>>

focusFlow(node) ==
  /\ node.kind = "entrypoint" /\ Truthy(node.flowId)
  /\ _focusFlowId' = node.flowId
  /\ rebuildOrRefresh(node.flowId, workspaceState)
  /\ scen' = NoScen
  /\ UNCHANGED <<workspaceState, pendingTails>>
  /\ UNCHANGED <<marked, resolver, extractor, heap, nav, parked>>

\* faulty variant: the rebuild after clearing still filters by the old focus
clearFocus_rebuildsFocused ==
  /\ _focusFlowId' = NullStr
  /\ rebuildOrRefresh(_focusFlowId, workspaceState)
  /\ scen' = NoScen
  /\ UNCHANGED <<workspaceState, pendingTails>>
  /\ UNCHANGED <<marked, resolver, extractor, heap, nav, parked>>

clearFocus ==
  /\ _focusFlowId' = NullStr
  /\ rebuildOrRefresh(NullStr, workspaceState)
  /\ scen' = NoScen
  /\ UNCHANGED <<workspaceState, pendingTails>>
  /\ UNCHANGED <<marked, resolver, extractor, heap, nav, parked>>

\* faulty variant: writing the visibility state empties the variables view
updateAndAwait_resetsVariables(key, next) ==
  /\ pendingTails < MaxPending
  /\ workspaceState' = [workspaceState EXCEPT ![key] = next]
  /\ pendingTails' = pendingTails + 1
  /\ notify' = [notify EXCEPT !.fired = 0, !.done = NoCall]
  /\ variablesProvider' = [variablesProvider EXCEPT !._variables = <<>>]
  /\ UNCHANGED <<_analysis, _workspaceRoot, _files, _focusFlowId, _loading,
                 _lastError, inFlight>>

\* a hide/unhide handler up to `await workspaceState.update(key, next)`
updateAndAwait(key, next) ==
  /\ pendingTails < MaxPending
  /\ workspaceState' = [workspaceState EXCEPT ![key] = next]
  /\ pendingTails' = pendingTails + 1
  /\ notify' = [notify EXCEPT !.fired = 0, !.done = NoCall]
  /\ UNCHANGED <<_analysis, _workspaceRoot, _files, _focusFlowId, _loading,
                 _lastError, inFlight, variablesProvider>>

\* faulty variant: the list written is built from the default [] instead of
\* the list read from the store
hideFlow_overwrites(node) ==
  /\ node.kind = "entrypoint" /\ Truthy(node.flowId)
  /\ updateAndAwait(HIDDEN_FLOWS_KEY, <<node.flowId>>)
  /\ scen' = scenHide(node.flowId)
  /\ UNCHANGED <<marked, resolver, extractor, heap, nav, parked>>

hideFlow(node) ==
  /\ node.kind = "entrypoint" /\ Truthy(node.flowId)
  /\ Len(uniqueArray(Append(workspaceState[HIDDEN_FLOWS_KEY], node.flowId)))
       <= MaxHiddenFlows
  /\ updateAndAwait(HIDDEN_FLOWS_KEY,
                    uniqueArray(Append(workspaceState[HIDDEN_FLOWS_KEY], node.flowId)))
  /\ scen' = scenHide(node.flowId)
  /\ UNCHANGED <<marked, resolver, extractor, heap, nav, parked>>

\* faulty variant: unhideAllFlows writes the list back as it is
unhideAllFlows_keepsList ==
  /\ updateAndAwait(HIDDEN_FLOWS_KEY, workspaceState[HIDDEN_FLOWS_KEY])
  /\ scen' = scenUnhideAll
  /\ UNCHANGED <<marked, resolver, extractor, heap, nav, parked>>

unhideAllFlows ==
  /\ updateAndAwait(HIDDEN_FLOWS_KEY, <<>>)
  /\ scen' = scenUnhideAll
  /\ UNCHANGED <<marked, resolver, extractor, heap, nav, parked>>

unhideFlowsInFile(node) ==
  /\ node.kind = "file" /\ Truthy(node.fileRel)
  /\ updateAndAwait(HIDDEN_FLOWS_KEY,
       SelectSeq(workspaceState[HIDDEN_FLOWS_KEY],
                 LAMBDA flowId : ~startsWith(flowId, node.fileRel \o "::")))
  /\ scen' = NoScen
  /\ UNCHANGED <<marked, resolver, extractor, heap, nav, parked>>

hideFile(node) ==
  /\ node.kind = "file" /\ Truthy(node.fileRel)
  /\ Len(uniqueArray(Append(workspaceState[HIDDEN_FILES_KEY], node.fileRel)))
       <= MaxHiddenFiles
  /\ updateAndAwait(HIDDEN_FILES_KEY,
                    uniqueArray(Append(workspaceState[HIDDEN_FILES_KEY], node.fileRel)))
  /\ scen' = NoScen
  /\ UNCHANGED <<marked, resolver, extractor, heap, nav, parked>>

unhideAllFiles ==
  /\ updateAndAwait(HIDDEN_FILES_KEY, <<>>)
  /\ scen' = NoScen
  /\ UNCHANGED <<marked, resolver, extractor, heap, nav, parked>>

\* a hide/unhide handler after its await
resumeAfterUpdate ==
  /\ pendingTails > 0
  /\ pendingTails' = pendingTails - 1
  /\ rebuildOrRefresh(_focusFlowId, workspaceState)
  /\ scen' = scenTail
  /\ UNCHANGED <<_focusFlowId, workspaceState>>
  /\ UNCHANGED <<marked, resolver, extractor, heap, nav, parked>>

Next ==
  \/ refresh
  \/ \E raw \in RefreshResults : refreshResolved(raw)
  \/ \E msg \in RefreshErrors : refreshThrew(msg)
  \/ \E node \in EntrypointNodes(_files) : focusFlow(node)
  \/ clearFocus
  \/ \E node \in EntrypointNodes(_files) : hideFlow(node)
  \/ unhideAllFlows
  \/ \E node \in FileNodes(_files) : unhideFlowsInFile(node)
  \/ \E node \in FileNodes(_files) : hideFile(node)
  \/ unhideAllFiles
  \/ resumeAfterUpdate

Spec == InitProvider /\ [][Next]_vars

----------------------------------------------------------------------------
(* ReviewState: markReviewed, unmarkReviewed, clearAllReviewed, getTreeItem *)

RECURSIVE CallsUnder(_)
\* the call nodes of a call list, at every depth
CallsUnder(calls) ==
  UNION {{calls[i]} \cup CallsUnder(calls[i].calls) : i \in 1..Len(calls)}

CallNodes(tree) == UNION {CallsUnder(ep.calls) : ep \in EntrypointNodes(tree)}

\* every node of the tree a command can be invoked on
TreeNodes(tree) == FileNodes(tree) \cup EntrypointNodes(tree) \cup CallNodes(tree)

\* `${file}:${line}:${label}`
reviewIdString(file, line, label) == file \o ":" \o ToString(line) \o ":" \o label

\* faulty variant: the identity of a call leaves the line out
_getReviewId_noLine(node) ==
  IF node.kind = "entrypoint" /\ Truthy(node.flowId) THEN node.flowId
  ELSE IF node.kind = "call" /\ Truthy(node.location.file)
  THEN node.location.file \o ":" \o node.label
  ELSE NullStr

_getReviewId(node) ==
  IF node.kind = "entrypoint" /\ Truthy(node.flowId) THEN node.flowId
  ELSE IF node.kind = "call" /\ Truthy(node.location.file)
  THEN reviewIdString(node.location.file, node.location.line, node.label)
  ELSE NullStr

\* getTreeItem(element).contextValue
contextValue(element, reviewedList) ==
  LET reviewedSet == SetOf(reviewedList)
  IN IF element.kind = "message" THEN "flowther.message"
     ELSE IF element.kind = "file"
     THEN IF /\ Len(element.entrypoints) > 0
             /\ \A i \in 1..Len(element.entrypoints) :
                  /\ Truthy(element.entrypoints[i].flowId)
                  /\ element.entrypoints[i].flowId \in reviewedSet
          THEN "flowther.file.reviewed"
          ELSE "flowther.file"
     ELSE IF element.kind = "entrypoint"
     THEN IF Truthy(element.flowId) /\ element.flowId \in reviewedSet
          THEN "flowther.entrypoint.reviewed"
          ELSE "flowther.entrypoint"
     ELSE LET callReviewId ==
                IF Truthy(element.location.file)
                THEN reviewIdString(element.location.file, element.location.line,
                                    element.label)
                ELSE NullStr
          IN IF Truthy(callReviewId) /\ callReviewId \in reviewedSet
             THEN "flowther.call.reviewed"
             ELSE IF element.cycle THEN "flowther.call.cycle" ELSE "flowther.call"

\* the identity of a node, as the observer records it
Identity(node) ==
  IF node.kind = "call"
  THEN <<"call", node.location.file, ToString(node.location.line), node.label>>
  ELSE <<"entrypoint", node.flowId, "", "">>

ReviewFrame ==
  UNCHANGED <<_analysis, _workspaceRoot, _files, _focusFlowId, _loading,
              _lastError, pendingTails, inFlight, scen, resolver, extractor,
              heap, variablesProvider, nav, parked>>

markReviewed(node) ==
  /\ Truthy(_getReviewId(node))
  /\ Len(uniqueArray(Append(workspaceState[REVIEWED_KEY], _getReviewId(node))))
       <= MaxReviewed
  /\ workspaceState' =
       [workspaceState EXCEPT ![REVIEWED_KEY] =
          uniqueArray(Append(@, _getReviewId(node)))]
  /\ marked' = marked \cup {Identity(node)}
  /\ notify' = [notify EXCEPT !.fired = 1,
                            !.done = CallDone("review", 1, "store", FALSE)]
  /\ ReviewFrame

\* faulty variant: unmarking one id empties the whole reviewed list
unmarkReviewed_clearsAll(node) ==
  /\ Truthy(_getReviewId(node))
  /\ Len(uniqueArray(Append(workspaceState[REVIEWED_KEY], _getReviewId(node))))
       <= MaxReviewed
  /\ workspaceState' = [workspaceState EXCEPT ![REVIEWED_KEY] = <<>>]
  /\ marked' = marked \ {Identity(node)}
  /\ notify' = [notify EXCEPT !.fired = 1,
                            !.done = CallDone("review", 1, "store", FALSE)]
  /\ ReviewFrame

unmarkReviewed(node) ==
  /\ Truthy(_getReviewId(node))
  /\ Len(uniqueArray(Append(workspaceState[REVIEWED_KEY], _getReviewId(node))))
       <= MaxReviewed
  /\ workspaceState' =
       [workspaceState EXCEPT ![REVIEWED_KEY] =
          SelectSeq(@, LAMBDA x : x # _getReviewId(node))]
  /\ marked' = marked \ {Identity(node)}
  /\ notify' = [notify EXCEPT !.fired = 1,
                            !.done = CallDone("review", 1, "store", FALSE)]
  /\ ReviewFrame

clearAllReviewed ==
  /\ workspaceState' = [workspaceState EXCEPT ![REVIEWED_KEY] = <<>>]
  /\ marked' = {}
  /\ notify' = [notify EXCEPT !.fired = 1,
                            !.done = CallDone("review", 1, "store", FALSE)]
  /\ ReviewFrame

\* what a refresh can get back while reviewing: the same analysis again, or
\* one in which the call of line 5 has moved
S3 == RawOk(<<RawFile("B.sol", <<EpBa>>), RawFile("A.sol", <<EpAbMoved, EpAa>>)>>)

ReviewResults == {S1, S3}

NextReview ==
  \/ refresh
  \/ \E raw \in ReviewResults : refreshResolved(raw)
  \/ \E msg \in RefreshErrors : refreshThrew(msg)
  \/ \E node \in EntrypointNodes(_files) : focusFlow(node)
  \/ clearFocus
  \/ \E node \in TreeNodes(_files) : markReviewed(node)
  \/ \E node \in TreeNodes(_files) : unmarkReviewed(node)
  \/ clearAllReviewed

SpecReview == InitProvider /\ [][NextReview]_vars

\* C6: a call node is reported reviewed exactly when its identity (file,
\* line, label) was marked and not unmarked since, whatever rebuilds and
\* refreshes came in between: the mark on (f, 5, L) stays, and (f, 6, L) is
\* never reported reviewed because of it.
C6_ReviewIdentityPersists ==
  \A d \in CallNodes(_files) :
    (contextValue(d, workspaceState[REVIEWED_KEY]) = "flowther.call.reviewed")
      <=> (Truthy(d.location.file) /\ Identity(d) \in marked)

\* (f, 5, transfer) is marked, has been rebuilt under a focus, and is
\* reported reviewed while (f, 6, transfer) is not
C6_Witness ==
  /\ marked = {<<"call", "/ws/A.sol", "5", "transfer">>}
  /\ _focusFlowId = "A.sol::C.b"
  /\ _analysis = S1
  /\ \E d5, d6 \in CallNodes(_files) :
       /\ Identity(d5) = <<"call", "/ws/A.sol", "5", "transfer">>
       /\ Identity(d6) = <<"call", "/ws/A.sol", "6", "transfer">>
       /\ contextValue(d5, workspaceState[REVIEWED_KEY]) = "flowther.call.reviewed"
       /\ contextValue(d6, workspaceState[REVIEWED_KEY]) = "flowther.call"

----------------------------------------------------------------------------
(* Claims on the provider's commands *)

\* C2: with an analysis loaded, hideFlow(X) followed by its rebuild removes
\* exactly the entrypoints with flowId X: none is visible afterwards, every
\* other entrypoint visible before is still visible, and a file node is gone
\* only if it has no visible entrypoint left.
C2_HideRemovesExactlyX ==
  scen.stage = 2 =>
    /\ \A p \in Visible(_files) : p[2] # scen.x
    /\ Visible(_files) = {p \in scen.pre : p[2] # scen.x}
    /\ TreePaths(_files) = {p[1] : p \in {q \in scen.pre : q[2] # scen.x}}

\* hideFlow has removed one of three visible entrypoints
C2_Witness ==
  /\ scen.stage = 2
  /\ Cardinality(scen.pre) = 3
  /\ Cardinality(Visible(_files)) = 2

\* C3, as claimed: hideFlow(X), unhideAllFlows and the rebuild give the set
\* of entrypoints that was visible immediately before hideFlow(X).
C3_RestoresPreHideSet == scen.stage = 4 => Visible(_files) = scen.pre

\* C3, amended: hideFlow(X), unhideAllFlows and the rebuild show every
\* entrypoint that was visible before hideFlow(X), and exactly those when no
\* flow was hidden before hideFlow(X); unhideAllFlows empties the list.
C3_RestoresAtLeastPreHideSet ==
  scen.stage = 4 =>
    /\ scen.pre \subseteq Visible(_files)
    /\ scen.hid = <<>> => Visible(_files) = scen.pre
    /\ workspaceState[HIDDEN_FLOWS_KEY] = <<>>

\* the scenario has run with nothing hidden before, X is visible again
C3_Witness ==
  /\ scen.stage = 4
  /\ scen.hid = <<>>
  /\ \E p \in Visible(_files) : p[2] = scen.x

\* C10: when runExtractor resolves with an object whose ok is false, refresh
\* ends with _files empty, _analysis null, _loading false and _lastError the
\* result's error (or "Unknown error" when that is empty), and the root's
\* children are the two error messages.
C10_OkFalseClearsTree ==
  [][\A raw \in RefreshResults :
       (raw.kind = "object" /\ ~raw.ok /\ refreshResolved(raw)) =>
         /\ _files' = <<>>
         /\ _analysis' = NullAnalysis
         /\ _loading' = FALSE
         /\ _lastError' = (IF raw.error = "" THEN "Unknown error" ELSE raw.error)
         /\ getChildren(_loading', _lastError', _files', _focusFlowId', _analysis',
                        workspaceState')
              = <<Message("Flowther error: " \o _lastError'),
                  Message("Run Flowther: Refresh Workflows to retry.")>>]_vars

\* a refresh has ended with ok:false and an empty message
C10_Witness ==
  /\ _lastError = "Unknown error"
  /\ _analysis = NullAnalysis
  /\ _files = <<>>
  /\ ~_loading

----------------------------------------------------------------------------
(* SpecResolver: resolvePythonPathForSlither *)

\* what `which slither` + its shebang give (pythonFromSlitherCLI)
SlitherPythons == {NullStr, "python3", "/opt/slither/bin/python"}

\* the flowther.pythonPath setting
PythonPathSettings == {"", "python", "/usr/bin/python3"}

\* python.defaultInterpreterPath as stored in the configuration
DefaultInterpreterPaths == {NullStr, "  ", "python", " /usr/bin/python3 "}

\* the interpreter the Python extension reports (pythonFromPythonExtension)
PythonsFromExt == {NullStr, "/ws/.venv/bin/python"}

\* VIRTUAL_ENV || CONDA_PREFIX
VirtualEnvs == {NullStr, "/ws/.venv"}

Platforms == {"linux", "win32"}

\* String.prototype.trim on the settings the model stores
trim(s) ==
  CASE s = "  " -> ""
    [] s = " /usr/bin/python3 " -> "/usr/bin/python3"
    [] OTHER -> s

\* pythonFromEnv(): the virtualenv's interpreter, if an environment is active
pythonFromEnv(venv, platform) ==
  IF Truthy(venv)
  THEN IF platform = "win32"
       THEN <<venv \o "\\" \o "Scripts" \o "\\" \o "python.exe">>
       ELSE <<pathJoin(pathJoin(venv, "bin"), "python")>>
  ELSE <<>>

\* candidates.push(x) guarded by `if (x)`
pushIf(candidates, x) == IF Truthy(x) THEN Append(candidates, x) ELSE candidates

\* the candidate list in the order the resolver assembles it
candidateList(slitherPython, pythonPathSetting, storedInterpreterPath, pythonFromExt, venv, platform) ==
  LET defaultInterpreterPath ==
        trim(IF Truthy(storedInterpreterPath) THEN storedInterpreterPath ELSE "")
      c1 == pushIf(<<>>, slitherPython)
      c2 == pushIf(c1, pythonPathSetting)
      c3 == pushIf(c2, defaultInterpreterPath)
      c4 == pushIf(c3, pythonFromExt)
  IN  c4 \o pythonFromEnv(venv, platform) \o <<"python3", "python">>

\* faulty variant: the candidate list is not deduplicated
uniqueCandidates_keepsDuplicates(candidates) == SelectSeq(candidates, Truthy)

\* Array.from(new Set(candidates.filter(Boolean)))
uniqueCandidates(candidates) ==
  uniqueArray(SelectSeq(candidates, Truthy))

Probe(kind, cmd, ok) == [kind |-> kind, cmd |-> cmd, ok |-> ok]

ResolverFrame == UNCHANGED <<providerVars, extractor, nav, parked>>

\* the call up to its first canImportSlither probe
resolveStart(slitherPython, pythonPathSetting, storedInterpreterPath, pythonFromExt, venv, platform) ==
  /\ resolver.pc \in {"idle", "done"}
  /\ LET candidates ==
           candidateList(slitherPython, pythonPathSetting, storedInterpreterPath,
                         pythonFromExt, venv, platform)
         unique == uniqueCandidates(candidates)
     IN resolver' =
          [pc |-> IF unique = <<>> THEN "uvx" ELSE "probing",
           slitherPython |-> slitherPython,
           pythonPathSetting |-> pythonPathSetting,
           candidates |-> candidates,
           unique |-> unique,
           probes |-> <<>>,
           runner |-> NoRunner]
  /\ ResolverFrame

\* faulty variant: the loop goes on after a probe that succeeded
probeCandidate_ignoresOk(ok) ==
  /\ resolver.pc = "probing"
  /\ LET i == Len(resolver.probes) + 1
         candidate == resolver.unique[i]
     IN resolver' =
          [resolver EXCEPT
             !.probes = Append(@, Probe("import", candidate, ok)),
             !.pc = IF i = Len(resolver.unique) THEN "uvx" ELSE "probing"]
  /\ ResolverFrame

\* one turn of the loop: canImportSlither(candidate) settles with `ok`
probeCandidate(ok) ==
  /\ resolver.pc = "probing"
  /\ LET i == Len(resolver.probes) + 1
         candidate == resolver.unique[i]
         log == Append(resolver.probes, Probe("import", candidate, ok))
     IN resolver' =
          IF ok
          THEN [resolver EXCEPT !.probes = log, !.pc = "done",
                                !.runner = Runner(candidate, <<>>)]
          ELSE [resolver EXCEPT !.probes = log,
                                !.pc = IF i = Len(resolver.unique)
                                        THEN "uvx" ELSE "probing"]
  /\ ResolverFrame

\* canRunSlitherViaUvx settles with `ok`
probeUvx(ok) ==
  /\ resolver.pc = "uvx"
  /\ LET log == Append(resolver.probes, Probe("uvx", "uvx", ok))
     IN resolver' =
          IF ok
          THEN [resolver EXCEPT !.probes = log, !.pc = "done",
                  !.runner = Runner("uvx", <<"--from", "slither-analyzer", "python">>)]
          ELSE [resolver EXCEPT !.probes = log, !.pc = "pipx"]
  /\ ResolverFrame

\* faulty variant: the shebang-derived interpreter is preferred to the override
fallbackRunner_shebangFirst(pythonPathSetting, slitherPython) ==
  IF Truthy(slitherPython) THEN Runner(slitherPython, <<>>)
  ELSE IF Truthy(pythonPathSetting) THEN Runner(pythonPathSetting, <<>>)
  ELSE Runner("python3", <<>>)

\* the best-effort descriptor returned when every probe failed
fallbackRunner(pythonPathSetting, slitherPython) ==
  IF Truthy(pythonPathSetting) THEN Runner(pythonPathSetting, <<>>)
  ELSE IF Truthy(slitherPython) THEN Runner(slitherPython, <<>>)
  ELSE Runner("python3", <<>>)

\* canRunSlitherViaPipx settles with `ok`; on failure the fallback is returned
probePipx(ok) ==
  /\ resolver.pc = "pipx"
  /\ LET log == Append(resolver.probes, Probe("pipx", "pipx", ok))
     IN resolver' =
          [resolver EXCEPT
             !.probes = log,
             !.pc = "done",
             !.runner =
               IF ok
               THEN Runner("pipx", <<"run", "--spec", "slither-analyzer", "python">>)
               ELSE fallbackRunner(resolver.pythonPathSetting, resolver.slitherPython)]
  /\ ResolverFrame

NextResolver ==
  \/ \E slitherPython \in SlitherPythons, pythonPathSetting \in PythonPathSettings,
        storedInterpreterPath \in DefaultInterpreterPaths,
        pythonFromExt \in PythonsFromExt, venv \in VirtualEnvs,
        platform \in Platforms :
       resolveStart(slitherPython, pythonPathSetting, storedInterpreterPath,
                    pythonFromExt, venv, platform)
  \/ \E ok \in BOOLEAN : probeCandidate(ok)
  \/ \E ok \in BOOLEAN : probeUvx(ok)
  \/ \E ok \in BOOLEAN : probePipx(ok)

SpecResolver == InitProvider /\ [][NextResolver]_vars

\* C7: when the probes of the first k-1 unique candidates failed and the
\* probe of the k-th succeeded, the resolver has returned {cmd: k-th
\* candidate, args: []}, the probes made are exactly those of candidates
\* 1..k in order (no later candidate was probed), and neither the uvx nor
\* the pipx probe has run.
C7_FirstSuccessWins ==
  \A k \in 1..Len(resolver.unique) :
    (/\ Len(resolver.probes) >= k
     /\ resolver.probes[k].kind = "import"
     /\ resolver.probes[k].ok
     /\ \A j \in 1..(k - 1) : ~resolver.probes[j].ok)
    => /\ resolver.pc = "done"
       /\ resolver.runner = [cmd |-> resolver.unique[k], args |-> <<>>]
       /\ Len(resolver.probes) = k
       /\ \A j \in 1..k :
            /\ resolver.probes[j].kind = "import"
            /\ resolver.probes[j].cmd = resolver.unique[j]
       /\ \A j \in 1..Len(resolver.probes) :
            resolver.probes[j].kind \notin {"uvx", "pipx"}

\* five or more unique candidates, the first three probes failed, the
\* fourth succeeded and the resolver has returned
C7_Witness ==
  /\ resolver.pc = "done"
  /\ Len(resolver.unique) >= 5
  /\ Len(resolver.probes) = 4
  /\ resolver.probes[4].ok
  /\ \A j \in 1..3 : ~resolver.probes[j].ok
  /\ resolver.runner.cmd = resolver.unique[4]

----------------------------------------------------------------------------
(* SpecExtractor: runExtractor / spawnOnce *)

\* `data` chunks the child can write to stdout: a result in two parts, a
\* result in one part, and a line that is not JSON
StdoutChunks ==
  {"{\"ok\":true,", "\"files\":[]}", "{\"ok\":false,\"error\":\"boom\"}",
   "Compiling"}

\* `data` chunks the child can write to stderr
StderrChunks == {"Error: solc not found", "\n"}

\* exit codes of a child that ends by itself
ExitCodes == {Code(0), Code(1)}

\* the code Node reports for a child that could not be spawned (-ENOENT)
SpawnFailedCode == Code(-2)

SpawnError == "spawn python3 ENOENT"

\* `stdout += d.toString()`: the string is the chunks end to end
RECURSIVE Text(_)
Text(chunks) ==
  IF chunks = <<>> THEN "" ELSE Head(chunks) \o Text(Tail(chunks))

isWhitespace(chunk) == chunk \in {"", " ", "\n"}

RECURSIVE trimStart(_)
trimStart(chunks) ==
  IF chunks # <<>> /\ isWhitespace(Head(chunks))
  THEN trimStart(Tail(chunks))
  ELSE chunks

RECURSIVE trimEnd(_)
trimEnd(chunks) ==
  IF chunks # <<>> /\ isWhitespace(chunks[Len(chunks)])
  THEN trimEnd(SubSeq(chunks, 1, Len(chunks) - 1))
  ELSE chunks

\* stderr.trim(): no chunk of StderrChunks has white space inside its ends
\* unless it is all white space
trimmedText(chunks) == Text(trimEnd(trimStart(chunks)))

\* the texts JSON.parse accepts, with the value each parses to
JSONDocuments ==
  { <<"{\"ok\":true,\"files\":[]}", RawOk(<<>>)>>,
    <<"{\"ok\":false,\"error\":\"boom\"}", RawFail("boom")>>,
    <<"null", NullAnalysis>>,
    <<"5", RawScalar>> }

\* JSON.parse(text) does not throw
JSONParses(text) == \E d \in JSONDocuments : d[1] = text

JSONParse(text) == (CHOOSE d \in JSONDocuments : d[1] = text)[2]

\* `${code}`
codeString(code) == IF code.isNull THEN "null" ELSE ToString(code.n)

\* code !== 0
isNonZero(code) == code.isNull \/ code.n # 0

\* resolve and reject settle a promise once; later calls do nothing
resolve(promise, value) ==
  IF promise.state = "pending"
  THEN [state |-> "resolved", value |-> value, error |-> NullStr]
  ELSE promise

reject(promise, message) ==
  IF promise.state = "pending"
  THEN [state |-> "rejected", value |-> NullAnalysis, error |-> message]
  ELSE promise

ExtractorFrame == UNCHANGED <<providerVars, resolver, nav, parked>>

\* context.asAbsolutePath(path.join("python", "extract_workflows.py"))
ScriptPath == "/ext/python/extract_workflows.py"

\* String(b) of a boolean
boolString(b) == IF b THEN "true" ELSE "false"

\* scriptArgs.push(flag, value) when the value is truthy
pushOption(flag, value) == IF Truthy(value) THEN <<flag, value>> ELSE <<>>

RECURSIVE filterPathArgs(_)
\* the loop over options.filterPaths; an entry that is not a string is
\* written NullStr
filterPathArgs(paths) ==
  IF paths = <<>> THEN <<>>
  ELSE (IF Truthy(Head(paths)) THEN <<"--filter-path", Head(paths)>> ELSE <<>>)
         \o filterPathArgs(Tail(paths))

\* faulty variant: --solc is pushed whether or not a compiler path is set
buildExtractorArgs_alwaysSolc(scriptPath, analysisTarget, workspaceRoot, options) ==
  <<scriptPath,
    "--target", analysisTarget,
    "--workspace-root", workspaceRoot,
    "--exclude-dependencies", boolString(options.excludeDependencies),
    "--expand-dependencies", boolString(options.expandDependencies),
    "--max-depth", ToString(options.maxCallDepth)>>
    \o pushOption("--slither-repo", options.slitherRepoPath)
    \o <<"--solc", options.solcPath>>
    \o pushOption("--solc-args", options.solcArgs)
    \o filterPathArgs(options.filterPaths)

buildExtractorArgs(scriptPath, analysisTarget, workspaceRoot, options) ==
  <<scriptPath,
    "--target", analysisTarget,
    "--workspace-root", workspaceRoot,
    "--exclude-dependencies", boolString(options.excludeDependencies),
    "--expand-dependencies", boolString(options.expandDependencies),
    "--max-depth", ToString(options.maxCallDepth)>>
    \o pushOption("--slither-repo", options.slitherRepoPath)
    \o pushOption("--solc", options.solcPath)
    \o pushOption("--solc-args", options.solcArgs)
    \o filterPathArgs(options.filterPaths)

\* runExtractor up to cp.spawn and the registration of the listeners; the
\* silent path passes no token
runExtractor(pythonRunner, analysisTarget, options, hasToken, spawned) ==
  /\ extractor.state \in {"none", "closed"}
  /\ extractor' =
       [state |-> IF spawned THEN "running" ELSE "spawnFailed",
        stdout |-> <<>>,
        stderr |-> <<>>,
        code |-> NullCode,
        token |-> hasToken,
        listening |-> hasToken,
        cancelRequested |-> FALSE,
        killed |-> FALSE,
        cancelledBeforeExit |-> FALSE,
        promise |-> Pending,
        call |-> Invocation(pythonRunner, analysisTarget, options),
        cmd |-> pythonRunner.cmd,
        args |-> pythonRunner.args
                   \o buildExtractorArgs(ScriptPath, analysisTarget, WsRoot, options)]
  /\ ExtractorFrame

\* spawnOnce(token) for the runner the resolver returned, in an
\* unconfigured workspace
spawnOnce(hasToken, spawned) ==
  runExtractor(resolver.runner, WsRoot, DefaultOptions, hasToken, spawned)

\* proc.stdout.on("data")
onStdoutData(d) ==
  /\ extractor.state \in {"running", "exited"}
  /\ Len(extractor.stdout) < MaxStdoutChunks
  /\ extractor' = [extractor EXCEPT !.stdout = Append(@, d)]
  /\ ExtractorFrame

\* proc.stderr.on("data")
onStderrData(d) ==
  /\ extractor.state \in {"running", "exited"}
  /\ Len(extractor.stderr) < MaxStderrChunks
  /\ extractor' = [extractor EXCEPT !.stderr = Append(@, d)]
  /\ ExtractorFrame

\* faulty variant: the cancellation kills every running child
onCancellationRequested_killsAll ==
  /\ extractor.listening
  /\ ~extractor.cancelRequested
  /\ extractor' =
       [extractor EXCEPT
          !.cancelRequested = TRUE,
          !.killed = (extractor.state = "running"),
          !.cancelledBeforeExit = (extractor.state = "running")]
  /\ parked' = [parked EXCEPT !.killed = (@ \/ parked.state = "running")]
  /\ UNCHANGED <<providerVars, resolver, nav>>

\* token.onCancellationRequested: proc.kill(); the signal reaches a child
\* that is still running
onCancellationRequested ==
  /\ extractor.listening
  /\ ~extractor.cancelRequested
  /\ extractor' =
       [extractor EXCEPT
          !.cancelRequested = TRUE,
          !.killed = (extractor.state = "running"),
          !.cancelledBeforeExit = (extractor.state = "running")]
  /\ ExtractorFrame

\* the child ends: by itself with an exit code, or by the signal (code null)
childExits(code) ==
  /\ extractor.state = "running"
  /\ code.isNull => extractor.killed
  /\ extractor' = [extractor EXCEPT !.state = "exited", !.code = code]
  /\ ExtractorFrame

\* proc.on("error"): the command could not be spawned
onError ==
  /\ extractor.state = "spawnFailed"
  /\ extractor' =
       [extractor EXCEPT
          !.state = "errored",
          !.code = SpawnFailedCode,
          !.listening = FALSE,
          !.promise = reject(@, SpawnError)]
  /\ ExtractorFrame

\* faulty variant: a non-zero exit code is reported even when stdout parses
settleOnClose_codeFirst(promise, stdout, stderr, code) ==
  IF JSONParses(Text(stdout)) /\ ~isNonZero(code)
  THEN resolve(promise, JSONParse(Text(stdout)))
  ELSE IF isNonZero(code)
  THEN reject(promise,
              IF Truthy(trimmedText(stderr)) THEN trimmedText(stderr)
              ELSE "Extractor exited with code " \o codeString(code))
  ELSE reject(promise,
              "Failed to parse extractor output as JSON. stderr: "
                \o trimmedText(stderr))

\* the try/catch of the close handler
settleOnClose(promise, stdout, stderr, code) ==
  IF JSONParses(Text(stdout))
  THEN resolve(promise, JSONParse(Text(stdout)))
  ELSE IF isNonZero(code)
  THEN reject(promise,
              IF Truthy(trimmedText(stderr)) THEN trimmedText(stderr)
              ELSE "Extractor exited with code " \o codeString(code))
  ELSE reject(promise,
              "Failed to parse extractor output as JSON. stderr: "
                \o trimmedText(stderr))

\* proc.on("close", code)
onClose ==
  /\ extractor.state \in {"exited", "errored"}
  /\ extractor' =
       [extractor EXCEPT
          !.state = "closed",
          !.listening = FALSE,
          !.promise = settleOnClose(@, extractor.stdout, extractor.stderr,
                                    extractor.code)]
  /\ ExtractorFrame

NextExtractor ==
  \/ \E hasToken \in BOOLEAN, spawned \in BOOLEAN : spawnOnce(hasToken, spawned)
  \/ \E d \in StdoutChunks : onStdoutData(d)
  \/ \E d \in StderrChunks : onStderrData(d)
  \/ onCancellationRequested
  \/ \E code \in ExitCodes \cup {NullCode} : childExits(code)
  \/ onError
  \/ onClose

SpecExtractor == InitProvider /\ [][NextExtractor]_vars

\* the outcome the close handler's rules give for (stdout, stderr, code)
CloseRulesGive(stdout, stderr, code, promise) ==
  /\ JSONParses(Text(stdout))
       => promise = [state |-> "resolved", value |-> JSONParse(Text(stdout)),
                     error |-> NullStr]
  /\ (~JSONParses(Text(stdout)) /\ isNonZero(code))
       => /\ promise.state = "rejected"
          /\ promise.error =
               IF trimmedText(stderr) = ""
               THEN "Extractor exited with code " \o codeString(code)
               ELSE trimmedText(stderr)
  /\ (~JSONParses(Text(stdout)) /\ ~isNonZero(code))
       => /\ promise.state = "rejected"
          /\ promise.error =
               "Failed to parse extractor output as JSON. stderr: "
                 \o trimmedText(stderr)

\* C8 (as stated): whenever the process closes, the promise is settled as
\* (stdout parses, exit code) say: resolved with the parsed value if stdout
\* parses; rejected with the trimmed stderr, or "Extractor exited with code
\* N" when that is empty, if it does not parse and the code is not 0;
\* rejected with the parse-failure message and stderr if it does not parse
\* and the code is 0.
C8_CloseOutcome ==
  [][onClose =>
       CloseRulesGive(extractor.stdout, extractor.stderr, extractor.code,
                      extractor'.promise)]_vars

\* C8 (amended): when the process closes and no "error" event has rejected
\* the promise before, the promise is settled as (stdout parses, exit code)
\* say; when an "error" event has rejected it, the close leaves that
\* rejection in place.
C8_CloseOutcomeUnlessErrored ==
  [][onClose =>
       IF extractor.promise.state = "pending"
       THEN CloseRulesGive(extractor.stdout, extractor.stderr, extractor.code,
                           extractor'.promise)
       ELSE extractor'.promise = extractor.promise]_vars

\* a close with unparseable stdout, exit code 1 and a stderr of white space
\* only was settled with the generic message
C8_Witness ==
  /\ extractor.state = "closed"
  /\ extractor.stdout = <<"{\"ok\":true,">>
  /\ extractor.stderr = <<"\n">>
  /\ extractor.code = Code(1)
  /\ extractor.promise.state = "rejected"
  /\ extractor.promise.error = "Extractor exited with code 1"

\* C9: once cancellation was signalled while the child had not exited, the
\* invocation's promise is never resolved (settled as success).
C9_CancelledNeverSucceeds ==
  extractor.cancelledBeforeExit => extractor.promise.state # "resolved"

----------------------------------------------------------------------------
(* Further claims on the tree, the focus and the messages *)

\* C12: in every reachable state of the provider, each file node of the
\* visible tree has at least one entrypoint.
C12_NoEmptyFileNode ==
  \A i \in 1..Len(_files) : Len(_files[i].entrypoints) >= 1

\* the only entrypoint of B.sol is hidden, the tree has been rebuilt and
\* shows other files but not B.sol
C12_Witness ==
  /\ _analysis = S1
  /\ pendingTails = 0
  /\ "B.sol::D.a" \in SetOf(workspaceState[HIDDEN_FLOWS_KEY])
  /\ "B.sol" \notin SetOf(workspaceState[HIDDEN_FILES_KEY])
  /\ _files # <<>>
  /\ "B.sol" \notin TreePaths(_files)

\* the entrypoints left by the hidden sets, and by the focus on top of them
LayeredView(analysis, store, focusId) ==
  {p \in RawPairs(analysis) :
     /\ p[1] \notin SetOf(store[HIDDEN_FILES_KEY])
     /\ p[2] \notin SetOf(store[HIDDEN_FLOWS_KEY])
     /\ Truthy(focusId) => p[2] = focusId}

\* C13: whenever no hide/unhide handler is waiting for its rebuild, every
\* visible entrypoint is outside the hidden-flow set and the hidden files
\* and, with a focus id set, has that flowId; focusFlow and clearFocus leave
\* the persisted lists as they are; after focusFlow(X) on a cached analysis
\* the view is the hidden-set view restricted to X, and after clearFocus it
\* is exactly the view of the hidden sets alone.
C13_FocusLayered ==
  /\ [](pendingTails = 0 =>
          Visible(_files) \subseteq
            LayeredView(_analysis, workspaceState, _focusFlowId))
  /\ [][/\ \A node \in EntrypointNodes(_files) :
             focusFlow(node) =>
               /\ workspaceState' = workspaceState
               /\ _analysis.kind # "null" =>
                    Visible(_files') =
                      LayeredView(_analysis, workspaceState, node.flowId)
        /\ clearFocus =>
             /\ workspaceState' = workspaceState
             /\ _analysis.kind # "null" =>
                  Visible(_files') =
                    LayeredView(_analysis, workspaceState, NullStr)]_vars

\* a focus is set while a flow is hidden, and the tree shows the focused flow
C13_Witness ==
  /\ Truthy(_focusFlowId)
  /\ workspaceState[HIDDEN_FLOWS_KEY] # <<>>
  /\ pendingTails = 0
  /\ _files # <<>>
  /\ Visible(_files) = LayeredView(_analysis, workspaceState, _focusFlowId)

\* the message the rules of the empty tree choose
EmptyTreeMessage ==
  IF Truthy(_focusFlowId)
  THEN "Focus mode is active. Clear focus to show all workflows."
  ELSE IF RawPairs(_analysis) # {}
  THEN IF {_analysis.files[i].path : i \in 1..Len(_analysis.files)}
            \subseteq SetOf(workspaceState[HIDDEN_FILES_KEY])
       THEN "All files are hidden. Use Flowther: Unhide All Files."
       ELSE "All workflows are hidden. Use Flowther: Unhide All Flows."
  ELSE "No workflows yet. Run Flowther: Refresh Workflows."

\* C14: not loading, no error and an empty tree: getChildren returns exactly
\* one message, the focus-mode one if a focus id is set; else, if the raw
\* analysis has an entrypoint, "All files are hidden" when every analysis
\* file is in the hidden-file set and "All workflows are hidden" when one is
\* not; else "No workflows yet".
C14_EmptyTreeMessage ==
  (~_loading /\ ~Truthy(_lastError) /\ _files = <<>>)
    => rootChildren = <<[kind |-> "message", message |-> EmptyTreeMessage]>>

\* two files of R2 are hidden, its third file has no entrypoint and is not
\* hidden: the tree is empty and the message is the one of hidden workflows
C14_Witness ==
  /\ _analysis = R2
  /\ ~Truthy(_focusFlowId)
  /\ SetOf(workspaceState[HIDDEN_FILES_KEY]) = {"A.sol", "/abs/C.sol"}
  /\ _files = <<>>
  /\ rootChildren[1].message =
       "All workflows are hidden. Use Flowther: Unhide All Flows."

----------------------------------------------------------------------------
(* Further claims on the review state and on the resolver *)

\* the id under which an identity is stored
IdentityId(m) ==
  IF m[1] = "call" THEN m[2] \o ":" \o m[3] \o ":" \o m[4] ELSE m[2]

\* C17: the reviewed set holds exactly the ids marked and not unmarked or
\* cleared since (an entrypoint's id is its flowId, a call's id is
\* file:line:label), and unmarkReviewed(id) removes id and nothing else.
C17_ReviewedIffLastMarked ==
  /\ [](SetOf(workspaceState[REVIEWED_KEY]) = {IdentityId(m) : m \in marked})
  /\ [][\A node \in TreeNodes(_files) :
          unmarkReviewed(node) =>
            \E m \in {Identity(node)} :
              SetOf(workspaceState'[REVIEWED_KEY]) =
                SetOf(workspaceState[REVIEWED_KEY]) \ {IdentityId(m)}]_vars

\* an entrypoint and a call are both marked reviewed
C17_Witness ==
  /\ Len(workspaceState[REVIEWED_KEY]) = 2
  /\ \E a \in marked, b \in marked : a[1] = "call" /\ b[1] = "entrypoint"

\* C18: when every direct probe, the uvx probe and the pipx probe failed,
\* the resolver has returned {cmd, args: []} with cmd the pythonPath
\* setting if set, else the interpreter of the slither CLI's shebang if
\* found, else "python3".
C18_FallbackDescriptor ==
  (/\ resolver.pc = "done"
   /\ \A j \in 1..Len(resolver.probes) : ~resolver.probes[j].ok)
  => /\ Len(resolver.probes) = Len(resolver.unique) + 2
     /\ resolver.runner.args = <<>>
     /\ resolver.runner.cmd =
          IF resolver.pythonPathSetting \notin {"", NullStr}
          THEN resolver.pythonPathSetting
          ELSE IF resolver.slitherPython \notin {"", NullStr}
          THEN resolver.slitherPython
          ELSE "python3"

\* every probe failed, no override is set and the slither CLI's interpreter
\* was returned
C18_Witness ==
  /\ resolver.pc = "done"
  /\ Len(resolver.probes) = Len(resolver.unique) + 2
  /\ \A j \in 1..Len(resolver.probes) : ~resolver.probes[j].ok
  /\ resolver.pythonPathSetting = ""
  /\ resolver.runner = [cmd |-> "/opt/slither/bin/python", args |-> <<>>]

----------------------------------------------------------------------------
(* SpecSession: every command of the provider, on one small analysis *)

\* one file with an own and an inherited entrypoint
S4 == RawOk(<<RawFile("A.sol", <<EpAa, EpAz>>)>>)

SessionResults == {S4, RawFail("boom")}

NextSession ==
  \/ refresh
  \/ \E raw \in SessionResults : refreshResolved(raw)
  \/ \E msg \in RefreshErrors : refreshThrew(msg)
  \/ \E node \in EntrypointNodes(_files) : focusFlow(node)
  \/ clearFocus
  \/ \E node \in EntrypointNodes(_files) : hideFlow(node)
  \/ unhideAllFlows
  \/ \E node \in FileNodes(_files) : unhideFlowsInFile(node)
  \/ \E node \in FileNodes(_files) : hideFile(node)
  \/ unhideAllFiles
  \/ resumeAfterUpdate
  \/ \E node \in TreeNodes(_files) : markReviewed(node)
  \/ \E node \in TreeNodes(_files) : unmarkReviewed(node)
  \/ clearAllReviewed

SpecSession == InitProvider /\ [][NextSession]_vars

\* C15: no step of refresh (its start, with or without a workspace folder,
\* its success, its ok:false outcome, its exception) changes the hidden-flow
\* list, the hidden-file list, the reviewed-id list or the focus id, and the
\* tree built from a re-analysis shows no flow of the hidden-flow list.
C15_RefreshKeepsPersistedState ==
  [][/\ (\/ refresh
         \/ \E raw \in SessionResults : refreshResolved(raw)
         \/ \E msg \in RefreshErrors : refreshThrew(msg))
          => /\ workspaceState' = workspaceState
             /\ _focusFlowId' = _focusFlowId
     /\ \A raw \in SessionResults :
          (raw.ok /\ refreshResolved(raw))
            => \A p \in Visible(_files') :
                 p[2] \notin SetOf(workspaceState[HIDDEN_FLOWS_KEY])]_vars

\* a refresh command has just succeeded while a flow was hidden, an id was
\* reviewed and a focus was set
C15_Witness ==
  /\ notify.fired = 1 /\ notify.done = NoCall
  /\ ~_loading /\ ~Truthy(_lastError)
  /\ _analysis = S4
  /\ workspaceState[HIDDEN_FLOWS_KEY] # <<>>
  /\ workspaceState[REVIEWED_KEY] # <<>>
  /\ Truthy(_focusFlowId)

\* the flowIds of all the entrypoints the analysis lists under a file
FlowsOfFile(analysis, fileRel) ==
  {p[2] : p \in {q \in RawPairs(analysis) : q[1] = fileRel}}

\* C16: a file node is reported fully reviewed exactly when the file has an
\* entrypoint and the flowId of every entrypoint of the file, the ones
\* hidden by the hidden-flow list or by the focus included, is reviewed.
C16_FileReviewedIffAllReviewed ==
  \A i \in 1..Len(_files) :
    contextValue(_files[i], workspaceState[REVIEWED_KEY]) = "flowther.file.reviewed"
      <=> /\ FlowsOfFile(_analysis, _files[i].fileRel) # {}
          /\ FlowsOfFile(_analysis, _files[i].fileRel)
               \subseteq SetOf(workspaceState[REVIEWED_KEY])

C16_HiddenUnreviewed ==
  /\ Len(_files) = 1
  /\ Len(_files[1].entrypoints) = 1
  /\ _files[1].entrypoints[1].flowId \in SetOf(workspaceState[REVIEWED_KEY])
  /\ ~(FlowsOfFile(_analysis, _files[1].fileRel)
         \subseteq SetOf(workspaceState[REVIEWED_KEY]))

----------------------------------------------------------------------------
(* C11: what _rebuildFiles leaves alone *)

\* the files array of the cached analysis, read through the references
AnalysisOnHeap(h) ==
  IF h.raw = 0 THEN <<>>
  ELSE [i \in 1..Len(h.cells[h.raw]) |->
          [h.cells[h.raw][i] EXCEPT !.entrypoints = h.cells[@]]]

\* this._files, read through the references
TreeOnHeap(h) ==
  [i \in 1..Len(h.cells[h.files]) |->
     [h.cells[h.files][i] EXCEPT !.entrypoints = h.cells[@]]]

\* the arrays of the cached analysis: the files array and each file's
\* entrypoints array
RawRefs(h) == IF h.raw = 0 THEN {} ELSE 1..(1 + Len(h.cells[h.raw]))

\* C11: after every rebuild the cached analysis (its files array, each
\* file's entrypoints array in its order, every call list) is what the
\* extractor returned; the arrays the rebuild sorted are arrays it created,
\* none of them an array of the analysis; and a rebuild changes neither the
\* hidden-flow list, the hidden-file list nor the focus id.
C11_RebuildLeavesInputsAlone ==
  /\ [](AnalysisOnHeap(heap) = _analysis.files)
  /\ [](heap.sorted \subseteq heap.fresh /\ heap.sorted \cap RawRefs(heap) = {})
  /\ [](heap.files # 0 => TreeOnHeap(heap) = _files)
  /\ [][/\ (\E R \in BuildAnalyses : BuildLoad(R))
            => /\ workspaceState' = workspaceState
               /\ _focusFlowId' = _focusFlowId
        /\ (\E X \in BuildFocusInputs : BuildFocus(X))
            => /\ workspaceState' = workspaceState
               /\ _analysis' = _analysis
               /\ _focusFlowId' \in BuildFocusInputs
        /\ (\/ \E p \in BuildHiddenFileInputs : BuildHideFile(p)
            \/ \E id \in BuildHiddenFlowInputs : BuildHideFlow(id))
            => /\ _focusFlowId' = _focusFlowId
               /\ _analysis' = _analysis]_vars

\* a rebuild of an analysis that lists B.sol before A.sol and `b` before
\* `a` has sorted the tree's arrays with nothing hidden and no focus, so
\* that every filter kept every element
C11_Witness ==
  /\ _analysis = R1
  /\ workspaceState[HIDDEN_FLOWS_KEY] = <<>>
  /\ workspaceState[HIDDEN_FILES_KEY] = <<>>
  /\ ~Truthy(_focusFlowId)
  /\ Len(_files) = 2
  /\ _files[1].fileRel = "A.sol"
  /\ _files[1].entrypoints[1].flowId = "A.sol::C.a"
  /\ Cardinality(heap.sorted) = 3

----------------------------------------------------------------------------
(* C30: cycle markers *)

\* C30: every call node of the tree whose cycle flag is true has an empty
\* calls list, whatever the analysis holds in that node's calls.
C30_CycleNodesAreLeaves ==
  \A c \in CallNodes(_files) : c.cycle => c.calls = <<>>

\* the tree holds a cycle node with children, as the analysis lists them
C30_CycleNodeWithChildren ==
  \E c \in CallNodes(_files) :
    /\ c.cycle
    /\ Len(c.calls) = 2
    /\ c.calls[2].cycle
    /\ _analysis = R3

----------------------------------------------------------------------------
(* C29: the order of the probes in one resolution *)

\* the probes of a resolution in which every probe fails: one import probe
\* per unique candidate in order, then uvx, then pipx
FullChain(unique) ==
  [i \in 1..Len(unique) |-> [kind |-> "import", cmd |-> unique[i]]]
    \o <<[kind |-> "uvx", cmd |-> "uvx"], [kind |-> "pipx", cmd |-> "pipx"]>>

\* the position of a candidate in the list, 0 when it is not in it
IndexOf(s, x) ==
  IF x \in SetOf(s) THEN CHOOSE i \in 1..Len(s) : s[i] = x ELSE 0

\* C29: the probes made so far are a prefix of: one import probe per unique
\* candidate in order, then the uvx probe, then the pipx probe; the unique
\* candidates are the non-empty direct candidates, each once, in the order
\* of their first place in the list the resolver assembled (the shebang
\* interpreter first, the override next, python3 and python last); every
\* probe but the last one made has failed, so uvx runs only after every
\* candidate failed and pipx only after uvx failed; there are at most N + 2
\* probes for N unique candidates.
C29_ProbeOrder ==
  LET unique == resolver.unique
      candidates == resolver.candidates
      probes == resolver.probes
      chain == FullChain(unique)
  IN /\ Len(probes) <= Len(unique) + 2
     /\ \A j \in 1..Len(probes) :
          /\ probes[j].kind = chain[j].kind
          /\ probes[j].cmd = chain[j].cmd
          /\ j < Len(probes) => ~probes[j].ok
     /\ SetOf(unique) = {x \in SetOf(candidates) : Truthy(x)}
     /\ \A i, j \in 1..Len(unique) :
          /\ unique[i] = unique[j] => i = j
          /\ i < j => IndexOf(candidates, unique[i]) < IndexOf(candidates, unique[j])
     /\ resolver.pc # "idle" =>
          /\ Truthy(resolver.slitherPython) => candidates[1] = resolver.slitherPython
          /\ Truthy(resolver.pythonPathSetting) =>
               IndexOf(candidates, resolver.pythonPathSetting) \in {1, 2}
          /\ SubSeq(candidates, Len(candidates) - 1, Len(candidates))
               = <<"python3", "python">>
     /\ resolver.pc = "uvx" => Len(probes) = Len(unique)
     /\ resolver.pc = "pipx" => Len(probes) = Len(unique) + 1
     /\ resolver.pc = "probing" => Len(probes) < Len(unique)

\* a resolution with six unique candidates in which every probe failed has
\* ended after eight probes
C29_Witness ==
  /\ resolver.pc = "done"
  /\ Len(resolver.unique) = 6
  /\ Len(resolver.probes) = 8
  /\ \A j \in 1..8 : ~resolver.probes[j].ok
  /\ resolver.probes[7].kind = "uvx"
  /\ resolver.probes[8].kind = "pipx"

----------------------------------------------------------------------------
(* SpecUnhide: hideFlow and unhideFlowsInFile on an analysis that lists an
   inherited entrypoint under the file of the contract that inherits it *)

\* D.a, whose flowId names B.sol, is listed under A.sol
S5 == RawOk(<<RawFile("A.sol", <<EpAa, EpBa>>), RawFile("B.sol", <<EpBb>>)>>)

UnhideResults == {S5, S1}

NextUnhide ==
  \/ refresh
  \/ \E raw \in UnhideResults : refreshResolved(raw)
  \/ \E node \in EntrypointNodes(_files) : hideFlow(node)
  \/ \E node \in FileNodes(_files) : unhideFlowsInFile(node)
  \/ resumeAfterUpdate

SpecUnhide == InitProvider /\ [][NextUnhide]_vars

\* the flowIds the analysis lists under the other files and not under fileRel
FlowsOfOtherFiles(analysis, fileRel) ==
  {p[2] : p \in {q \in RawPairs(analysis) : q[1] # fileRel}}
    \ FlowsOfFile(analysis, fileRel)

\* C26: unhideFlowsInFile on the node of file F leaves no flowId that the
\* analysis lists under F in the hidden-flow list, and keeps in the list
\* every hidden flowId the analysis lists under another file only.
C26_UnhideFlowsInFile ==
  [][\A node \in FileNodes(_files) :
       (unhideFlowsInFile(node) /\ _analysis.kind # "null")
         => /\ FlowsOfFile(_analysis, node.fileRel)
                 \cap SetOf(workspaceState'[HIDDEN_FLOWS_KEY]) = {}
            /\ (FlowsOfOtherFiles(_analysis, node.fileRel)
                  \cap SetOf(workspaceState[HIDDEN_FLOWS_KEY]))
                 \subseteq SetOf(workspaceState'[HIDDEN_FLOWS_KEY])]_vars

\* D.a, listed under A.sol, is hidden and A.sol's node is in the tree
C26_InheritedHidden ==
  /\ _analysis = S5
  /\ "B.sol::D.a" \in SetOf(workspaceState[HIDDEN_FLOWS_KEY])
  /\ "A.sol" \in TreePaths(_files)
  /\ pendingTails = 0

----------------------------------------------------------------------------
(* C21: overlapping refreshes *)

\* C21: starting a refresh ends no refresh in flight, and when the refresh
\* that completes last completes (none is left in flight), _analysis,
\* _files, _loading and _lastError are the ones of that refresh's outcome:
\* the analysis and its tree on success, no analysis, no tree and the
\* message on ok:false and on an exception, whatever the refreshes that
\* completed before it left.
C21_LastCompletionWins ==
  [][/\ refresh => inFlight' >= inFlight
     /\ inFlight = 1 =>
          /\ \A raw \in SessionResults :
               refreshResolved(raw) =>
                 <<_analysis', _files', _loading', _lastError'>> =
                   IF raw.ok
                   THEN <<raw, rebuilt(raw, WsRoot, workspaceState, _focusFlowId),
                          FALSE, NullStr>>
                   ELSE <<NullAnalysis, <<>>, FALSE, raw.error>>
          /\ \A msg \in RefreshErrors :
               refreshThrew(msg) =>
                 <<_analysis', _files', _loading', _lastError'>> =
                   <<NullAnalysis, <<>>, FALSE, msg>>]_vars

\* no refresh is in flight, the last one to complete threw, and the
\* analysis is the one an earlier completion wrote
C21_StaleAnalysis ==
  /\ inFlight = 0
  /\ _lastError \in RefreshErrors
  /\ _files = <<>>
  /\ ~_loading
  /\ _analysis = S4

----------------------------------------------------------------------------
(* SpecNav: openLocation, its awaits and the highlight-clear timers.
   nav.timers are the setTimeout callbacks not yet run or cleared: `id` is
   the handle, `seq` the value the closure captured, `editor` the editor it
   captured.  nav.highlight[e] is 0 when editor e has no jump decoration,
   else the number of the call that set it. *)

MaxNavCalls == 3

\* what a tree node can carry as location: null, an empty file, a file
\* that opens, a file that does not
NavLocations ==
  {NoLocation, Loc("", 0), Loc("A.sol", 5), Loc("B.sol", 1), Loc("gone.sol", 1)}

NavFrame == UNCHANGED <<providerVars, resolver, extractor, parked>>

\* faulty variant: the old timer is left pending and every closure reads one
\* shared seq variable
scheduleHighlightClear_sharedSeq(n, seq, editor) ==
  [n EXCEPT !.timers = {[t EXCEPT !.seq = seq] : t \in @}
                         \cup {[id |-> seq, seq |-> seq, editor |-> editor]},
            !.jumpHighlightTimeout = seq]

\* if (jumpHighlightTimeout) clearTimeout(...); jumpHighlightTimeout = setTimeout(...)
scheduleHighlightClear(n, seq, editor) ==
  [n EXCEPT !.timers = {t \in @ : t.id # n.jumpHighlightTimeout}
                         \cup {[id |-> seq, seq |-> seq, editor |-> editor]},
            !.jumpHighlightTimeout = seq]

\* openLocation(location) up to `await openTextDocument`, or its early return
openLocation(location) ==
  /\ nav.started < MaxNavCalls
  /\ IF ~Truthy(location.file)
     THEN nav' = [nav EXCEPT !.started = @ + 1,
                             !.last = Outcome("ignored", NullStr)]
     ELSE nav' = [nav EXCEPT !.started = @ + 1,
                             !.calls = @ \cup {[n |-> nav.started + 1,
                                                file |-> location.file,
                                                stage |-> "opening"]},
                             !.last = NoOutcome]
  /\ NavFrame

\* openTextDocument resolved; the call now awaits showTextDocument
documentOpened(c) ==
  /\ c \in nav.calls /\ c.stage = "opening" /\ c.file \in Editors
  /\ nav' = [nav EXCEPT !.calls = (@ \ {c}) \cup {[c EXCEPT !.stage = "showing"]},
                        !.last = NoOutcome]
  /\ NavFrame

\* openTextDocument or showTextDocument rejected: the catch block
openFailed(c) ==
  /\ c \in nav.calls
  /\ c.stage = "opening" => c.file \notin Editors
  /\ nav' = [nav EXCEPT !.calls = @ \ {c},
                        !.last = Outcome("failed", "Flowther: Failed to open location.")]
  /\ NavFrame

\* showTextDocument resolved: selection, reveal, decoration, timer
editorShown(c) ==
  /\ c \in nav.calls /\ c.stage = "showing"
  /\ LET seq == nav.jumpHighlightSeq + 1
     IN nav' = [scheduleHighlightClear(nav, seq, c.file)
                  EXCEPT !.jumpHighlightSeq = seq,
                         !.highlight[c.file] = seq,
                         !.calls = @ \ {c},
                         !.last = Outcome("highlighted", NullStr)]
  /\ NavFrame

\* a setTimeout callback runs
timerFires(t) ==
  /\ t \in nav.timers
  /\ IF t.seq # nav.jumpHighlightSeq
     THEN nav' = [nav EXCEPT !.timers = @ \ {t},
                             !.last = Outcome("stale", NullStr)]
     ELSE nav' = [nav EXCEPT !.timers = @ \ {t},
                             !.highlight[t.editor] = 0,
                             !.last = Outcome("cleared", NullStr)]
  /\ NavFrame

NextNav ==
  \/ \E location \in NavLocations : openLocation(location)
  \/ \E c \in nav.calls : documentOpened(c)
  \/ \E c \in nav.calls : openFailed(c)
  \/ \E c \in nav.calls : editorShown(c)
  \/ \E t \in nav.timers : timerFires(t)

SpecNav == InitProvider /\ [][NextNav]_vars

\* C22: a timer callback changes a decoration only when the seq it captured
\* is the current jumpHighlightSeq, and the decoration it removes is the one
\* its own call set, never one set by a later call
C22_StaleTimerClearsNothing ==
  [][\A t \in nav.timers :
       timerFires(t) /\ nav'.highlight # nav.highlight
         => /\ t.seq = nav.jumpHighlightSeq
            /\ nav.highlight[t.editor] = t.id
            /\ nav'.highlight = [nav.highlight EXCEPT ![t.editor] = 0]]_vars

\* a timer has cleared the highlight of the third navigation while an
\* earlier navigation has shown its editor in between
C22_Witness ==
  /\ nav.last.kind = "cleared"
  /\ nav.jumpHighlightSeq = 3
  /\ nav.calls = {}

\* C23: an editor with a jump decoration always has a pending timer that
\* will clear it; without one, only a later navigation to that editor can
\* ever change its decoration
C23_HighlightHasPendingClear ==
  \A e \in Editors :
    nav.highlight[e] # 0
      => \E t \in nav.timers : t.editor = e /\ t.seq = nav.jumpHighlightSeq

\* the second navigation went to the other editor before the first timer
\* fired; every call has finished, every timer has run, A.sol is still
\* highlighted
C23_HighlightLeftBehind ==
  /\ nav.highlight["A.sol"] = 1
  /\ nav.highlight["B.sol"] = 0
  /\ nav.timers = {}
  /\ nav.calls = {}
  /\ nav.started = MaxNavCalls

\* C25: a navigation that ends without opening an editor has shown a message
C25_FailedNavigationWarns ==
  nav.last.kind \in {"ignored", "failed"} => Truthy(nav.last.message)

\* a call with no location file has returned and nothing was shown
C25_SilentReturn ==
  /\ nav.last = Outcome("ignored", NullStr)
  /\ nav.calls = {}

----------------------------------------------------------------------------
(* SpecVariables: the variables view next to the workflows tree *)

ModB == RawModifier("A.sol::C.b", "b", "C", Loc("A.sol", 20))
\* a modifier without location
ModA == RawModifier("A.sol::C.a", "a", "C", NoLocation)

VarX == RawVariable("A.sol::C.x", "x", "uint256", "C", FALSE, NullStr,
                    Loc("A.sol", 3), <<ModB, ModA>>)
VarY == RawVariable("B.sol::D.y", "y", "address", "D", TRUE, "Base",
                    Loc("/abs/C.sol", 2), <<ModA>>)
\* a variable no entry point modifies
VarZ == RawVariable("A.sol::C.z", "z", "bool", "C", FALSE, NullStr,
                    NoLocation, <<>>)

\* entries out of path order, one without variables, two of one path
V1 ==
  RawOkVars(<<RawFile("A.sol", <<EpAa>>)>>,
            <<RawVarFile("B.sol", "D", <<VarY>>),
              RawVarFile("E.sol", "E", <<>>),
              RawVarFile("A.sol", "C", <<VarX, VarZ>>),
              RawVarFile("A.sol", "C2", <<VarY>>)>>)

V2 == RawOkVars(<<RawFile("A.sol", <<EpAa>>)>>, <<RawVarFile("A.sol", "C", <<VarZ>>)>>)

VariablesResults == {V1, V2, RawFail("boom")}

\* a step of a hide/unhide/focus/review command
ViewOperation ==
  \/ \E node \in EntrypointNodes(_files) : focusFlow(node)
  \/ clearFocus
  \/ \E node \in EntrypointNodes(_files) : hideFlow(node)
  \/ unhideAllFlows
  \/ \E node \in FileNodes(_files) : unhideFlowsInFile(node)
  \/ \E node \in FileNodes(_files) : hideFile(node)
  \/ unhideAllFiles
  \/ resumeAfterUpdate
  \/ \E node \in TreeNodes(_files) : markReviewed(node)
  \/ \E node \in TreeNodes(_files) : unmarkReviewed(node)
  \/ clearAllReviewed

NextVariables ==
  \/ refresh
  \/ \E raw \in VariablesResults : refreshResolved(raw)
  \/ \E msg \in RefreshErrors : refreshThrew(msg)
  \/ ViewOperation

SpecVariables == InitProvider /\ [][NextVariables]_vars

\* the raw entries that have at least one variable, in producer order
EntriesWithVars(analysis) == SelectSeq(analysis.variables, LAMBDA f : Len(f.vars) > 0)

\* node n shows raw entry f: its path and contract, its variables in order,
\* and for each variable the entry's modifiers in order
ShowsEntry(n, f, root) ==
  /\ n.fileRel = f.path /\ n.contract = f.contract
  /\ Len(n.vars) = Len(f.vars)
  /\ \A i \in 1..Len(f.vars) :
       /\ n.vars[i].varId = f.vars[i].varId
       /\ Len(n.vars[i].modifiers) = Len(f.vars[i].modifiers)
       /\ \A k \in 1..Len(f.vars[i].modifiers) :
            /\ n.vars[i].modifiers[k].flowId = f.vars[i].modifiers[k].flowId
            /\ n.vars[i].modifiers[k].label = f.vars[i].modifiers[k].label
            /\ n.vars[i].modifiers[k].contract = f.vars[i].modifiers[k].contract
            /\ n.vars[i].modifiers[k].location =
                 normalizeLocation(f.vars[i].modifiers[k].location, root)

\* C28: after setAnalysis the view has one file node per raw variables
\* entry with at least one variable and no other node, sorted by path
\* ascending, each variable with its raw modifiers in producer order
C28_VariablesView ==
  variablesProvider._analysis.kind # "null" /\ variablesProvider._lastError = NullStr
    => LET out == variablesProvider._variables
           kept == EntriesWithVars(variablesProvider._analysis)
       IN /\ Len(out) = Len(kept)
          /\ \E p \in [1..Len(kept) -> 1..Len(kept)] :
               /\ \A i, j \in 1..Len(kept) : p[i] = p[j] => i = j
               /\ \A i \in 1..Len(kept) :
                    ShowsEntry(out[i], kept[p[i]], variablesProvider._workspaceRoot)
          /\ \A i \in 1..Len(out) : Len(out[i].vars) > 0
          /\ \A i, j \in 1..Len(out) :
               i < j => localeCompare(out[i].fileRel, out[j].fileRel) <= 0

\* V1 is shown: A.sol twice, then B.sol, E.sol left out, x with its
\* modifiers b then a
C28_Witness ==
  /\ variablesProvider._analysis = V1
  /\ variablesProvider._lastError = NullStr
  /\ Len(variablesProvider._variables) = 3
  /\ variablesProvider._variables[1].contract = "C"
  /\ variablesProvider._variables[3].fileRel = "B.sol"
  /\ variablesProvider._variables[1].vars[1].modifiers[1].label = "b"
  /\ variablesProvider._variables[1].vars[1].modifiers[2].location = NoLocation

\* C27: with an analysis cached, a step of a hide/unhide/focus/review
\* command leaves the variables provider as it is; and when setAnalysis has
\* rebuilt the variables, the workflows provider holds the raw analysis as
\* returned and the tree _rebuildFiles builds from it
C27_ViewsIndependent ==
  /\ [](_analysis.kind # "null" => variablesProvider._analysis = _analysis)
  /\ [][/\ ViewOperation /\ _analysis.kind # "null"
           => UNCHANGED variablesProvider
        /\ variablesProvider' # variablesProvider /\ variablesProvider'._lastError = NullStr
           => /\ _analysis' \in VariablesResults
              /\ variablesProvider'._analysis = _analysis'
              /\ _files' = rebuilt(_analysis', WsRoot, workspaceState', _focusFlowId')]_vars

\* V1 is cached and shown in the variables view while a flow is hidden, a
\* flow is focused and a node is marked reviewed
C27_Witness ==
  /\ _analysis = V1
  /\ Len(variablesProvider._variables) = 3
  /\ workspaceState[HIDDEN_FLOWS_KEY] # <<>>
  /\ workspaceState[REVIEWED_KEY] # <<>>
  /\ _focusFlowId # NullStr
  /\ pendingTails = 0 /\ inFlight = 0

----------------------------------------------------------------------------
(* SpecPipeline: one refresh through its awaited steps: resolveSlitherTarget,
   resolvePythonPathForSlither, runExtractor.  The refresh is at its first
   await while it is in flight, the resolver is idle and no child exists. *)

\* the flowther.targetPath setting, trimmed
TargetPathSettings == {"", "src", "/abs/C.sol"}

Returned(value) == [threw |-> FALSE, value |-> value, message |-> NullStr]

Threw(message) == [threw |-> TRUE, value |-> NullStr, message |-> message]

\* the path resolveSlitherTarget tests with fs.existsSync
resolvedTarget(workspaceRoot, targetPathSetting) ==
  IF isAbsolute(targetPathSetting) THEN targetPathSetting
  ELSE pathJoin(workspaceRoot, targetPathSetting)

\* faulty variant: a missing target falls back to the workspace root
resolveSlitherTarget_fallsBack(workspaceRoot, targetPathSetting, exists) ==
  IF targetPathSetting # ""
  THEN IF ~exists
       THEN Returned(workspaceRoot)
       ELSE Returned(resolvedTarget(workspaceRoot, targetPathSetting))
  ELSE Returned(workspaceRoot)

\* `exists` is what fs.existsSync answers; without a setting the target is
\* the workspace root or a project root found under it
resolveSlitherTarget(workspaceRoot, targetPathSetting, exists) ==
  IF targetPathSetting # ""
  THEN IF ~exists
       THEN Threw("flowther.targetPath does not exist: "
                    \o resolvedTarget(workspaceRoot, targetPathSetting))
       ELSE Returned(resolvedTarget(workspaceRoot, targetPathSetting))
  ELSE Returned(workspaceRoot)

AtTargetStep ==
  inFlight = 1 /\ resolver.pc = "idle" /\ extractor.state = "none"

\* refresh is called while no refresh is running
pipelineRefresh ==
  /\ inFlight = 0 /\ resolver.pc = "idle" /\ extractor.state = "none"
  /\ refresh

\* `await resolveSlitherTarget(...)`: the catch block when it throws, else on
\* to resolvePythonPathForSlither
pipelineTarget(targetPathSetting, exists) ==
  /\ AtTargetStep
  /\ IF resolveSlitherTarget(WsRoot, targetPathSetting, exists).threw
     THEN refreshThrew(resolveSlitherTarget(WsRoot, targetPathSetting, exists).message)
     ELSE \E slitherPython \in {NullStr, "python3"} :
            resolveStart(slitherPython, "", NullStr, NullStr, NullStr, "linux")

\* `await runExtractor(pythonRunner, ...)`: silent passes no token
pipelineSpawn(hasToken, spawned) ==
  /\ inFlight = 1 /\ resolver.pc = "done" /\ extractor.state = "none"
  /\ spawnOnce(hasToken, spawned)

\* the TypeError of `raw.ok` when raw is null
NullRawError == "Cannot read properties of null (reading 'ok')"

\* the promise of runExtractor settled; `raw.ok` throws inside the try block
\* when raw is null
pipelineSettle ==
  /\ inFlight = 1
  /\ \/ /\ extractor.promise.state = "resolved"
        /\ extractor.promise.value.kind # "null"
        /\ refreshResolved(extractor.promise.value)
     \/ /\ extractor.promise.state = "resolved"
        /\ extractor.promise.value.kind = "null"
        /\ refreshThrew(NullRawError)
     \/ /\ extractor.promise.state = "rejected"
        /\ refreshThrew(extractor.promise.error)

NextPipeline ==
  \/ pipelineRefresh
  \/ \E targetPathSetting \in TargetPathSettings, exists \in BOOLEAN :
       pipelineTarget(targetPathSetting, exists)
  \/ \E ok \in BOOLEAN : probeCandidate(ok)
  \/ \E ok \in BOOLEAN : probeUvx(ok)
  \/ \E ok \in BOOLEAN : probePipx(ok)
  \/ \E hasToken \in BOOLEAN, spawned \in BOOLEAN : pipelineSpawn(hasToken, spawned)
  \/ \E d \in StdoutChunks : onStdoutData(d)
  \/ \E d \in StderrChunks : onStderrData(d)
  \/ onCancellationRequested
  \/ \E code \in ExitCodes \cup {NullCode} : childExits(code)
  \/ onError
  \/ onClose
  \/ pipelineSettle

SpecPipeline == InitProvider /\ [][NextPipeline]_vars

MissingTargetErrors ==
  {"flowther.targetPath does not exist: " \o resolvedTarget(WsRoot, s) :
     s \in TargetPathSettings \ {""}}

\* C24: when targetPath is set and does not exist, the step that resolves
\* the target ends the refresh: _loading false, _files empty, _lastError
\* naming the resolved path, no refresh in flight, no probe made and no
\* child spawned; and no probe or child is there while that error stands
C24_MissingTargetEndsRefresh ==
  /\ [](_lastError \in MissingTargetErrors
          => /\ ~_loading /\ _files = <<>> /\ inFlight = 0
             /\ resolver = NoResolver /\ extractor = NoExtractor)
  /\ [][\A s \in TargetPathSettings \ {""} :
          pipelineTarget(s, FALSE)
            => /\ ~_loading' /\ _files' = <<>> /\ inFlight' = 0
               /\ _lastError' =
                    "flowther.targetPath does not exist: " \o resolvedTarget(WsRoot, s)
               /\ resolver' = NoResolver /\ extractor' = NoExtractor]_vars

\* the refresh ended on the missing relative target
C24_Witness ==
  /\ _lastError = "flowther.targetPath does not exist: /ws/src"
  /\ ~_loading /\ inFlight = 0
  /\ variablesProvider._lastError = _lastError

----------------------------------------------------------------------------
(* SpecNormalize: normalization of analyses with one entrypoint, whose
   location and call list vary *)

\* what a raw line or character can be
JsNumbers == {JsUndefined, JsNull, NaN, POSITIVE_INFINITY, JsText, 0, 7}

RawLoc(f, l, c) == [file |-> f, line |-> l, character |-> c]

CallN1 == RawCall("b", Loc("A.sol", 5), FALSE, <<>>)
\* a call without location.file
CallN2 == RawCall("a", NoLocation, FALSE, <<CallN1, RawCall("z", NoLocation, FALSE, <<>>)>>)
CallN3 == RawCall("z", Loc("/abs/C.sol", 6), FALSE, <<CallN2, CallN1, CallN2>>)

NormalizeCallLists ==
  {<<>>, <<CallN2, CallN1>>, <<CallN3, CallN2, CallN3>>}

\* one file, one entrypoint
RawOne(loc, calls) ==
  RawOk(<<RawFile("A.sol", <<RawEp("A.sol::C.a", "a", FALSE, loc, calls)>>)>>)

\* the analyses loaded: every raw line and character, with every call list
NormalizeAnalyses ==
  {RawOne(RawLoc("A.sol", rawLine, rawCharacter), callList) :
     rawLine \in JsNumbers, rawCharacter \in JsNumbers,
     callList \in NormalizeCallLists}

NextNormalize == \E R \in NormalizeAnalyses : BuildLoad(R)

SpecNormalize == InitProvider /\ [][NextNormalize]_vars

\* the entrypoint of the analysis loaded, and its node
RawEntry == _analysis.files[1].entrypoints[1]
EntryNode == _files[1].entrypoints[1]

RECURSIVE SameShape(_, _)
\* the nodes are the raw calls one for one, in order, numbered from 1, with a
\* null location exactly where the raw call has no file, at every depth
SameShape(raws, nodes) ==
  /\ Len(nodes) = Len(raws)
  /\ \A i \in 1..Len(raws) :
       /\ nodes[i].kind = "call"
       /\ nodes[i].order = i
       /\ nodes[i].label = raws[i].label
       /\ (nodes[i].location = NoLocation) = ~Truthy(raws[i].location.file)
       /\ nodes[i].location = normalizeLocation(raws[i].location, WsRoot)
       /\ SameShape(raws[i].calls, nodes[i].calls)

\* C31: every raw call yields one node, siblings keep the producer's order
\* at every depth and the i-th sibling carries order i; a call without
\* location.file is a node with a null location
C31_CallShapeKept ==
  _analysis.kind # "null" => SameShape(RawEntry.calls, EntryNode.calls)

\* three calls at the top, the first with three children of which the
\* first has no location and two children of its own
C31_Witness ==
  /\ _analysis.kind # "null"
  /\ Len(EntryNode.calls) = 3
  /\ Len(EntryNode.calls[1].calls) = 3
  /\ EntryNode.calls[1].calls[1].location = NoLocation
  /\ EntryNode.calls[1].calls[3].order = 3
  /\ Len(EntryNode.calls[1].calls[1].calls) = 2
  /\ EntryNode.calls[1].calls[1].calls[2].order = 2

\* the raw values that are missing or not finite
MissingOrNonFinite == {JsUndefined, JsNull, NaN, POSITIVE_INFINITY, JsText}

\* C32: the normalized line and character of a location with a file are
\* finite, and 0 when the raw value is missing or not finite
C32_FiniteLineAndCharacter ==
  _analysis.kind # "null"
    => /\ isFinite(EntryNode.location.line)
       /\ isFinite(EntryNode.location.character)
       /\ RawEntry.location.line \in MissingOrNonFinite
            => EntryNode.location.line = 0
       /\ RawEntry.location.character \in MissingOrNonFinite
            => EntryNode.location.character = 0

\* a raw line of Infinity stays Infinity, a raw character that is a
\* non-numeric string becomes NaN
C32_NonFiniteKept ==
  /\ _analysis.kind # "null"
  /\ RawEntry.location.line = POSITIVE_INFINITY
  /\ EntryNode.location.line = POSITIVE_INFINITY
  /\ RawEntry.location.character = JsText
  /\ EntryNode.location.character = NaN

----------------------------------------------------------------------------
(* SpecArgs: the argument vector of the extractor *)

ArgRunners ==
  {Runner("python3", <<>>),
   Runner("uvx", <<"--from", "slither-analyzer", "python">>)}

\* flowther.filterPaths; NullStr is an entry that is not a string
FilterPathLists ==
  {<<>>, <<"lib">>, <<"test", "lib">>, <<"lib", "lib">>, <<"lib", "", "test">>,
   <<NullStr, "lib">>}

ArgOptions ==
  {Options(repo, solc, solcArgs, paths, exclude, expand, depth) :
     repo \in {"", "/opt/slither"}, solc \in {"", "/usr/bin/solc"},
     solcArgs \in {"", "--optimize"}, paths \in FilterPathLists,
     exclude \in BOOLEAN, expand \in BOOLEAN, depth \in {3, 10}}

NextArgs ==
  \E pythonRunner \in ArgRunners, options \in ArgOptions, spawned \in BOOLEAN :
    runExtractor(pythonRunner, "/ws/src", options, FALSE, spawned)

SpecArgs == InitProvider /\ [][NextArgs]_vars

\* the vector after the runner's own args
ScriptArgs == SubSeq(extractor.args, Len(extractor.call.pythonRunner.args) + 1,
                     Len(extractor.args))

\* the positions of ScriptArgs that hold flag, at an odd offset after the
\* eleven fixed entries
FlagAt(flag) ==
  {i \in 12..Len(ScriptArgs) : (i % 2 = 0) /\ ScriptArgs[i] = flag}

\* the fixed part: the runner's args, the script, the five flags in order
FixedPart ==
  /\ SubSeq(extractor.args, 1, Len(extractor.call.pythonRunner.args))
       = extractor.call.pythonRunner.args
  /\ extractor.cmd = extractor.call.pythonRunner.cmd
  /\ Len(ScriptArgs) >= 11
  /\ SubSeq(ScriptArgs, 1, 11) =
       <<ScriptPath, "--target", extractor.call.analysisTarget,
         "--workspace-root", WsRoot,
         "--exclude-dependencies",
         IF extractor.call.options.excludeDependencies THEN "true" ELSE "false",
         "--expand-dependencies",
         IF extractor.call.options.expandDependencies THEN "true" ELSE "false",
         "--max-depth", ToString(extractor.call.options.maxCallDepth)>>

\* flag is there, once, with value, if and only if value is set
OptionalFlag(flag, value) ==
  IF value = "" THEN FlagAt(flag) = {}
  ELSE /\ Cardinality(FlagAt(flag)) = 1
       /\ \A i \in FlagAt(flag) : ScriptArgs[i + 1] = value

\* the optional flags, each before the next and all before the filter paths
OptionalPart ==
  /\ OptionalFlag("--slither-repo", extractor.call.options.slitherRepoPath)
  /\ OptionalFlag("--solc", extractor.call.options.solcPath)
  /\ OptionalFlag("--solc-args", extractor.call.options.solcArgs)
  /\ \A i \in FlagAt("--slither-repo"), j \in FlagAt("--solc") : i < j
  /\ \A i \in FlagAt("--slither-repo"), j \in FlagAt("--solc-args") : i < j
  /\ \A i \in FlagAt("--solc"), j \in FlagAt("--solc-args") : i < j
  /\ \A i \in FlagAt("--slither-repo") \cup FlagAt("--solc") \cup FlagAt("--solc-args"),
        j \in FlagAt("--filter-path") : i < j
  /\ \A i \in 12..Len(ScriptArgs) :
       i % 2 = 0 => ScriptArgs[i] \in {"--slither-repo", "--solc", "--solc-args",
                                       "--filter-path"}
  /\ Len(ScriptArgs) % 2 = 1

\* the --filter-path pairs are `paths`, one pair each, in order
FilterPart(paths) ==
  /\ Cardinality(FlagAt("--filter-path")) = Len(paths)
  /\ \A k \in 1..Len(paths) :
       ScriptArgs[Len(ScriptArgs) - 2 * (Len(paths) - k)] = paths[k]

\* C33 as claimed: one --filter-path pair for every configured entry
C33_OnePairPerConfiguredPath ==
  extractor.state # "none"
    => FixedPart /\ OptionalPart /\ FilterPart(extractor.call.options.filterPaths)

\* C33: the runner's args, the script and the fixed flags in order, each
\* optional flag if and only if it is set, then one --filter-path pair for
\* every configured entry that is a non-empty string, in configured order
C33_ArgumentVector ==
  extractor.state # "none"
    => /\ FixedPart
       /\ OptionalPart
       /\ FilterPart(SelectSeq(extractor.call.options.filterPaths, Truthy))

\* every optional flag set, a runner with args of its own, and a filter
\* list with an empty entry between two paths
C33_Witness ==
  /\ extractor.state = "running"
  /\ extractor.call.pythonRunner.cmd = "uvx"
  /\ extractor.call.options.filterPaths = <<"lib", "", "test">>
  /\ extractor.call.options.solcArgs # ""
  /\ extractor.call.options.solcPath # ""
  /\ extractor.call.options.slitherRepoPath # ""
  /\ Len(extractor.args) = 24

----------------------------------------------------------------------------
\* C34: while a refresh is in flight the provider is loading and the root
\* of the view is the loading message
C34_LoadingWhileInFlight ==
  inFlight > 0 => _loading /\ rootChildren = <<Message("Loading workflows")>>

\* of two overlapping refreshes one has completed with a result: the tree is
\* shown while the other is still in flight
C34_ShownWhileInFlight ==
  /\ inFlight = 1
  /\ ~_loading
  /\ _analysis.kind # "null"
  /\ rootChildren = _files /\ _files # <<>>

----------------------------------------------------------------------------
(* SpecPipelineFair: the pipeline when every awaited step settles: the
   target is resolved, each probe answers, the child is spawned or fails to
   spawn, a running child exits, error and close are delivered and the
   continuation of refresh runs.  The child writes at most one chunk to each
   stream. *)

PipelineProgress ==
  \/ \E targetPathSetting \in TargetPathSettings, exists \in BOOLEAN :
       pipelineTarget(targetPathSetting, exists)
  \/ \E ok \in BOOLEAN : probeCandidate(ok)
  \/ \E ok \in BOOLEAN : probeUvx(ok)
  \/ \E ok \in BOOLEAN : probePipx(ok)
  \/ \E hasToken \in BOOLEAN, spawned \in BOOLEAN : pipelineSpawn(hasToken, spawned)
  \/ \E code \in ExitCodes \cup {NullCode} : childExits(code)
  \/ onError
  \/ onClose
  \/ pipelineSettle

\* what the child writes to stdout, in one chunk: each document, JSON null,
\* a JSON number, text that is not JSON
WholeOutputs ==
  {"{\"ok\":true,\"files\":[]}", "{\"ok\":false,\"error\":\"boom\"}", "null", "5",
   "Compiling"}

NextPipelineFair ==
  \/ pipelineRefresh
  \/ PipelineProgress
  \/ \E d \in WholeOutputs : Len(extractor.stdout) = 0 /\ onStdoutData(d)
  \/ \E d \in StderrChunks : Len(extractor.stderr) = 0 /\ onStderrData(d)
  \/ onCancellationRequested

SpecPipelineFair ==
  InitProvider /\ [][NextPipelineFair]_vars /\ WF_vars(PipelineProgress)

\* C35: a refresh in flight is followed by a state with no refresh in
\* flight, and with no refresh in flight the provider is not loading
C35_RefreshCompletes ==
  /\ [](inFlight = 0 => ~_loading)
  /\ (inFlight = 1) ~> (inFlight = 0 /\ ~_loading)

\* the refresh ended on JSON null from the extractor
C35_Witness ==
  /\ inFlight = 0 /\ ~_loading
  /\ _lastError = NullRawError
  /\ extractor.state = "closed"

----------------------------------------------------------------------------
\* no handler is suspended at an await
Quiescent == pendingTails = 0 /\ inFlight = 0

\* C36: in a quiescent state without loading and without error, the tree is
\* the one a fresh build gives from the current analysis, the persisted
\* hidden lists and the current focus id
C36_TreeIsFreshBuild ==
  Quiescent /\ ~_loading /\ ~Truthy(_lastError)
    => _files = rebuilt(_analysis, _workspaceRoot, workspaceState, _focusFlowId)

\* a focused tree with a hidden flow and a hidden file, at rest
C36_Witness ==
  /\ Quiescent /\ ~_loading /\ ~Truthy(_lastError)
  /\ _analysis.kind # "null"
  /\ Truthy(_focusFlowId)
  /\ workspaceState[HIDDEN_FLOWS_KEY] # <<>>
  /\ workspaceState[HIDDEN_FILES_KEY] # <<>>
  /\ _files # <<>>

----------------------------------------------------------------------------
\* C37: with no refresh in flight the two views show one outcome: the
\* workflows provider's error with an empty, erroneous variables view, or
\* the variables of the analysis the workflows provider holds
C37_ViewsShowOneOutcome ==
  inFlight = 0
    => /\ Truthy(_lastError)
            => /\ variablesProvider._variables = <<>>
               /\ Truthy(variablesProvider._lastError)
       /\ (~Truthy(_lastError) /\ _analysis.kind # "null")
            => /\ variablesProvider._analysis = _analysis
               /\ variablesProvider._lastError = NullStr

\* the refresh ended with ok:false: the workflows view shows the error, the
\* variables view still lists the variables of V1
C37_StaleVariables ==
  /\ inFlight = 0 /\ pendingTails = 0
  /\ _analysis.kind = "null"
  /\ _lastError = "boom"
  /\ variablesProvider._analysis = V1
  /\ variablesProvider._lastError = NullStr
  /\ Len(variablesProvider._variables) = 3

----------------------------------------------------------------------------
(* C38: a failed refresh and the operations that follow it *)

\* getChildren(undefined)
NoElement == [kind |-> "undefined"]

\* getChildren(element): the loading, error and empty-tree messages are
\* returned before the element is looked at
childrenOf(element) ==
  IF _loading \/ Truthy(_lastError) \/ Len(_files) = 0 THEN rootChildren
  ELSE IF element.kind = "undefined" THEN _files
  ELSE IF element.kind = "file" THEN element.entrypoints
  ELSE IF element.kind \in {"entrypoint", "call"} THEN element.calls
  ELSE <<>>

\* the elements the view can ask about
Elements == {NoElement} \cup TreeNodes(_files)

OnlyMessages ==
  \A element \in Elements :
    \A i \in 1..Len(childrenOf(element)) : childrenOf(element)[i].kind = "message"

\* a step of a hide, unhide, focus or review handler
OperationStep ==
  \/ \E node \in EntrypointNodes(_files) : focusFlow(node)
  \/ clearFocus
  \/ \E node \in EntrypointNodes(_files) : hideFlow(node)
  \/ unhideAllFlows
  \/ \E node \in FileNodes(_files) : unhideFlowsInFile(node)
  \/ \E node \in FileNodes(_files) : hideFile(node)
  \/ unhideAllFiles
  \/ resumeAfterUpdate
  \/ \E node \in TreeNodes(_files) : markReviewed(node)
  \/ \E node \in TreeNodes(_files) : unmarkReviewed(node)
  \/ clearAllReviewed

\* a refresh settles with an analysis
RefreshSucceeds ==
  /\ inFlight' = inFlight - 1
  /\ _analysis'.kind # "null"
  /\ _lastError' = NullStr
  /\ ~_loading'
  /\ _files' = rebuilt(_analysis', _workspaceRoot', workspaceState, _focusFlowId)

----------------------------------------------------------------------------
(* SpecCancel: two calls of spawnOnce alive at one time *)

\* the event loop turns to the other call: each call of spawnOnce has its own
\* proc, stdout, stderr and disposeCancel, and a handler sees only its own
switchInvocation ==
  /\ extractor # parked
  /\ extractor' = parked
  /\ parked' = extractor
  /\ UNCHANGED <<providerVars, resolver, nav>>

\* what the child of either call writes, in one chunk
CancelOutputs == {"{\"ok\":true,\"files\":[]}", "Compiling"}

NextCancel ==
  \/ \E hasToken \in BOOLEAN, spawned \in BOOLEAN : spawnOnce(hasToken, spawned)
  \/ \E d \in CancelOutputs : Len(extractor.stdout) = 0 /\ onStdoutData(d)
  \/ onCancellationRequested
  \/ \E code \in ExitCodes \cup {NullCode} : childExits(code)
  \/ onError
  \/ onClose
  \/ switchInvocation

SpecCancel == InitProvider /\ [][NextCancel]_vars

\* the two calls
Invocations == {extractor, parked}

\* C39: a child is killed only by the cancellation of its own call's token,
\* so the child of a silent call (no token) is never killed; once a call's
\* child has emitted close or error its listener is disposed, and no later
\* step records a cancellation or a kill on it; and a step of one call's
\* handlers leaves the other call as it is
C39_CancellationIsLocal ==
  /\ [](\A e \in Invocations :
          /\ e.killed => (e.token /\ e.cancelRequested)
          /\ e.state \in {"closed", "errored"} => ~e.listening
          /\ ~e.token => ~e.listening)
  /\ [][\/ parked' = parked
        \/ (extractor' = parked /\ parked' = extractor)]_vars
  /\ [][(parked' = parked /\ extractor.state \in {"closed", "errored"}
           /\ extractor'.state = extractor.state)
          => /\ extractor'.cancelRequested = extractor.cancelRequested
             /\ extractor'.killed = extractor.killed]_vars

\* the token of one call was cancelled while both children were running: its
\* child was killed, the silent call's child was not and has exited by itself
C39_Witness ==
  \E e, o \in Invocations :
    /\ e.token /\ e.killed /\ e.state = "closed" /\ e.code = NullCode
    /\ ~o.token /\ ~o.killed /\ o.state = "closed" /\ o.code = Code(0)
    /\ o.promise.state = "resolved"

----------------------------------------------------------------------------
(* C40: overlapping hide and review commands *)

NoDuplicates(list) == Cardinality(SetOf(list)) = Len(list)

\* C40: the persisted lists never hold an entry twice; a step that adds an
\* id to a list appends it to the list as the store holds it at that step,
\* also while other handlers are suspended at their await, so the earlier
\* additions stay; and the part of a handler after its await writes nothing
C40_NoLostUpdate ==
  /\ [](\A key \in StoreKeys : NoDuplicates(workspaceState[key]))
  /\ [][\A key \in StoreKeys :
          (\E x \in SetOf(workspaceState'[key]) : x \notin SetOf(workspaceState[key]))
            => \E x \in SetOf(workspaceState'[key]) :
                 workspaceState'[key] = Append(workspaceState[key], x)]_vars
  /\ [][pendingTails' < pendingTails => workspaceState' = workspaceState]_vars

\* hideFlow(X) and hideFlow(Y) are both suspended at their await: the tree
\* still shows X and Y, and the store lists both
C40_Witness ==
  /\ pendingTails = 2
  /\ Len(workspaceState[HIDDEN_FLOWS_KEY]) = 2
  /\ \A i \in 1..2 :
       workspaceState[HIDDEN_FLOWS_KEY][i]
         \in {node.flowId : node \in EntrypointNodes(_files)}

====
